---- MODULE Spec2Model ----
(***************************************************************************)
(* A model of cosmic-text's FontSystem (src/src/font/system.rs): the font  *)
(* cache, the font-match cache, the per-font codepoint support cache and   *)
(* the Unicode-range fallback pipeline.                                    *)
(***************************************************************************)
EXTENDS Integers, Sequences, FiniteSets, TLC

VARIABLES
    db,                  \* FontSystem.db: the set of FaceInfo records
    issued,              \* FontSystem.db: how many face ids it has given out
    font_cache,          \* FontSystem.font_cache: id -> Option<Arc<Font>>
    font_matches_cache,  \* FontSystem.font_matches_cache: FontMatchAttrs -> keys
    cp_cache,            \* FontSystem.font_codepoint_support_info_cache
    fallbacks,           \* FontSystem.unicode_range_fallbacks: the rules
    monospace_font_ids,  \* FontSystem.monospace_font_ids: Vec<fontdb::ID>
    per_script_monospace_font_ids,  \* script tag -> Vec<fontdb::ID>
    monospace_fallback,  \* cfg!(feature = "monospace_fallback") of the build
    load_attempts,       \* observer: id -> number of Font::new calls
    warn_log,            \* observer: id -> number of "failed to load" warnings
    ret                  \* observer: the last call, its inputs and result

vars == <<db, issued, font_cache, font_matches_cache, cp_cache, fallbacks,
          monospace_font_ids, per_script_monospace_font_ids,
          monospace_fallback, load_attempts, warn_log, ret>>

----------------------------------------------------------------------------
(* Bounds of the model *)

MaxFaces == 3
MaxRules == 2
MaxMissing == 2

(* Program constants *)

SUPPORTED_MAX_SZ == 512
NOT_SUPPORTED_MAX_SZ == 1024
FONT_MATCHES_CACHE_SIZE_LIMIT == 256

----------------------------------------------------------------------------
(* Helpers: finite maps *)

EmptyMap == [x \in {} |-> 0]

Put(f, k, v) == [x \in (DOMAIN f) \cup {k} |-> IF x = k THEN v ELSE f[x]]

Min(a, b) == IF a < b THEN a ELSE b

AbsDiff(a, b) == IF a < b THEN b - a ELSE a - b

----------------------------------------------------------------------------
(* The font database (fontdb::Database) and the faces it can hold *)

Styles == {"Normal", "Italic"}

\* Font::unicode_codepoints of a parsed face, named by the face's charset
\* tag: whether codepoint c is in the charset.
InCharset(cps, c) ==
    /\ c \in 0..16383
    /\ \/ cps = 1 /\ c % 2 = 0
       \/ cps = 2 /\ c % 3 = 0

\* fontdb gives every loaded face an id it has not given out before.
NextId == issued + 1

\* A PostScript name is the sequence of its characters.
PlainName == <<"F", "a", "c", "e">>

\* fontdb::FaceInfo with everything the font system reads of it; scripts are
\* the script records of the GPOS table followed by those of the GSUB table.
MonoFaceInfo(id, weight, style, ok, cps, monospaced, post_script_name, scripts) ==
    [id |-> id, weight |-> weight, style |-> style, ok |-> ok, cps |-> cps,
     monospaced |-> monospaced, post_script_name |-> post_script_name,
     scripts |-> scripts]

\* A proportional face without script tables.
FaceInfo(id, weight, style, ok, cps) ==
    MonoFaceInfo(id, weight, style, ok, cps, FALSE, PlainName, <<>>)

HasFace(id) == \E f \in db : f.id = id

Face(id) == CHOOSE f \in db : f.id = id

\* db.faces(): the faces in slot (id) order.
RECURSIVE FacesFrom(_, _)
FacesFrom(d, i) ==
    IF \A f \in d : f.id < i THEN <<>>
    ELSE IF \E f \in d : f.id = i
         THEN <<CHOOSE f \in d : f.id = i>> \o FacesFrom(d, i + 1)
         ELSE FacesFrom(d, i + 1)

Faces(d) == FacesFrom(d, 1)

----------------------------------------------------------------------------
(* get_font *)

NoFont == [some |-> FALSE, id |-> 0, cps |-> 0]

SomeFont(id, cps) == [some |-> TRUE, id |-> id, cps |-> cps]

\* Font::new(&self.db, id): None when the face is absent or does not parse.
FontNew(d, id) ==
    IF \E f \in d : f.id = id /\ f.ok
    THEN SomeFont(id, (CHOOSE f \in d : f.id = id).cps)
    ELSE NoFont

\* A get_font that caches successes only: a failed load is tried again.
GetFontNoMemo(fc, la, wl, id) ==
    LET font == FontNew(db, id)
        la1  == Put(la, id, (IF id \in DOMAIN la THEN la[id] ELSE 0) + 1)
        wl1  == IF ~font.some /\ HasFace(id)
                THEN Put(wl, id, (IF id \in DOMAIN wl THEN wl[id] ELSE 0) + 1)
                ELSE wl
    IN  IF id \in DOMAIN fc /\ fc[id].some
        THEN [font |-> fc[id], fc |-> fc, la |-> la, wl |-> wl]
        ELSE [font |-> font, fc |-> IF font.some THEN Put(fc, id, font) ELSE fc,
              la |-> la1, wl |-> wl1]

\* The result of get_font(id) as a record of the next cache and observers.
GetFontResult(fc, la, wl, id) ==
    IF id \in DOMAIN fc
    THEN [font |-> fc[id], fc |-> fc, la |-> la, wl |-> wl]
    ELSE LET font == FontNew(db, id)
         IN  [font |-> font,
              fc   |-> Put(fc, id, font),
              la   |-> Put(la, id, (IF id \in DOMAIN la THEN la[id] ELSE 0) + 1),
              wl   |-> IF ~font.some /\ HasFace(id)
                       THEN Put(wl, id, (IF id \in DOMAIN wl THEN wl[id] ELSE 0) + 1)
                       ELSE wl]

GetFont(id) ==
    LET r == GetFontResult(font_cache, load_attempts, warn_log, id)
    IN  /\ font_cache' = r.fc
        /\ load_attempts' = r.la
        /\ warn_log' = r.wl
        /\ ret' = [op |-> "get_font", id |-> id, font |-> r.font,
                   memo |-> id \in DOMAIN font_cache]
        /\ UNCHANGED <<db, issued, font_matches_cache, cp_cache, fallbacks,
                       monospace_font_ids, per_script_monospace_font_ids,
                       monospace_fallback>>

----------------------------------------------------------------------------
(* get_font_matches *)

Attrs(family, weight, style, metadata) ==
    [family |-> family, weight |-> weight, style |-> style, metadata |-> metadata]

\* FontMatchAttrs::from(&Attrs): the fields a match depends on.
FontMatchAttrs(attrs) ==
    [family |-> attrs.family, weight |-> attrs.weight, style |-> attrs.style]

\* Attrs::matches(face): the attribute-compatibility predicate.
Matches(attrs, face) == face.style = attrs.style

FontMatchKey(attrs, face) ==
    [font_weight_diff |-> AbsDiff(attrs.weight, face.weight),
     font_weight      |-> face.weight,
     id               |-> face.id]

\* An order that ignores the weight difference.
KeyLessByWeightFirst(a, b) ==
    \/ a.font_weight < b.font_weight
    \/ a.font_weight = b.font_weight /\ a.id < b.id

\* derive(PartialOrd, Ord) on FontMatchKey: lexicographic in field order.
KeyLess(a, b) ==
    \/ a.font_weight_diff < b.font_weight_diff
    \/ /\ a.font_weight_diff = b.font_weight_diff
       /\ \/ a.font_weight < b.font_weight
          \/ a.font_weight = b.font_weight /\ a.id < b.id

\* Vec::sort (stable) by Ord, as an insertion sort.
RECURSIVE InsertKey(_, _)
InsertKey(k, s) ==
    IF s = <<>> THEN <<k>>
    ELSE IF KeyLess(k, Head(s)) THEN <<k>> \o s
    ELSE <<Head(s)>> \o InsertKey(k, Tail(s))

RECURSIVE SortKeys(_)
SortKeys(s) ==
    IF s = <<>> THEN <<>>
    ELSE InsertKey(s[Len(s)], SortKeys(SubSeq(s, 1, Len(s) - 1)))

\* A collection of keys that leaves out the filter.
RECURSIVE MapKeysUnfiltered(_, _)
MapKeysUnfiltered(attrs, faces) ==
    IF faces = <<>> THEN <<>>
    ELSE <<FontMatchKey(attrs, Head(faces))>> \o MapKeysUnfiltered(attrs, Tail(faces))

RECURSIVE FilterMapKeys(_, _)
FilterMapKeys(attrs, faces) ==
    IF faces = <<>> THEN <<>>
    ELSE (IF Matches(attrs, Head(faces))
          THEN <<FontMatchKey(attrs, Head(faces))>> ELSE <<>>)
         \o FilterMapKeys(attrs, Tail(faces))

\* The closure of or_insert_with: filter, map, collect, sort.
ComputeMatches(d, attrs) == SortKeys(FilterMapKeys(attrs, Faces(d)))

\* A get_font_matches without the size check.
NeverCleared(cache) == cache

\* The size check at the head of get_font_matches.
ClearIfFull(cache) ==
    IF Cardinality(DOMAIN cache) >= FONT_MATCHES_CACHE_SIZE_LIMIT
    THEN EmptyMap ELSE cache

GetFontMatches(attrs) ==
    LET c1  == ClearIfFull(font_matches_cache)
        key == FontMatchAttrs(attrs)
        hit == key \in DOMAIN c1
        c2  == IF hit THEN c1 ELSE Put(c1, key, ComputeMatches(db, attrs))
    IN  /\ font_matches_cache' = c2
        /\ ret' = [op |-> "get_font_matches", attrs |-> attrs, keys |-> c2[key],
                   hit |-> hit,
                   was_cached |-> key \in DOMAIN font_matches_cache,
                   size_before |-> Cardinality(DOMAIN font_matches_cache),
                   refreshed |-> ret.op = "db_mut" /\ key \in ret.dropped]
        /\ UNCHANGED <<db, issued, font_cache, cp_cache, fallbacks, load_attempts, warn_log,
                       monospace_font_ids, per_script_monospace_font_ids,
                       monospace_fallback>>

----------------------------------------------------------------------------
(* FontCachedCodepointSupportInfo *)

NewInfo == [supported |-> <<>>, not_supported |-> <<>>]

\* slice::binary_search on v (0-based positions): Ok(pos) or Err(insert pos).
RECURSIVE BinarySearchFrom(_, _, _, _)
BinarySearchFrom(v, x, left, right) ==
    IF left >= right THEN [found |-> FALSE, pos |-> left]
    ELSE LET mid == left + ((right - left) \div 2)
         IN  IF v[mid + 1] < x THEN BinarySearchFrom(v, x, mid + 1, right)
             ELSE IF v[mid + 1] > x THEN BinarySearchFrom(v, x, left, mid)
             ELSE [found |-> TRUE, pos |-> mid]

BinarySearch(v, x) == BinarySearchFrom(v, x, 0, Len(v))

\* A Vec::insert(pos, x) that is not followed by a truncate.
InsertNoTruncate(v, pos, x, max) ==
    SubSeq(v, 1, pos) \o <<x>> \o SubSeq(v, pos + 1, Len(v))

\* Vec::insert(pos, x) followed by Vec::truncate(max).
InsertTruncate(v, pos, x, max) ==
    LET w == SubSeq(v, 1, pos) \o <<x>> \o SubSeq(v, pos + 1, Len(v))
    IN  SubSeq(w, 1, Min(Len(w), max))

\* An unknown_has_codepoint that inserts nothing into a full sequence.
UnknownSkipWhenFull(info, font_codepoints, codepoint, sp, np) ==
    LET r == InCharset(font_codepoints, codepoint)
    IN  [ret |-> r, consulted |-> TRUE,
         info |->
            IF r
            THEN IF Len(info.supported) < SUPPORTED_MAX_SZ
                 THEN [info EXCEPT !.supported =
                          InsertTruncate(@, sp, codepoint, SUPPORTED_MAX_SZ)]
                 ELSE info
            ELSE IF Len(info.not_supported) < NOT_SUPPORTED_MAX_SZ
                 THEN [info EXCEPT !.not_supported =
                          InsertTruncate(@, np, codepoint, NOT_SUPPORTED_MAX_SZ)]
                 ELSE info]

\* An unknown_has_codepoint that records every codepoint as supported.
UnknownAlwaysSupported(info, font_codepoints, codepoint, sp, np) ==
    LET r == InCharset(font_codepoints, codepoint)
    IN  [ret |-> r, consulted |-> TRUE,
         info |->
            IF sp # SUPPORTED_MAX_SZ
            THEN [info EXCEPT !.supported =
                     InsertTruncate(@, sp, codepoint, SUPPORTED_MAX_SZ)]
            ELSE info]

\* An unknown_has_codepoint that also records a supported codepoint as
\* not supported.
UnknownRecordsInBoth(info, font_codepoints, codepoint, sp, np) ==
    LET r == InCharset(font_codepoints, codepoint)
        i1 == IF r /\ sp # SUPPORTED_MAX_SZ
              THEN [info EXCEPT !.supported =
                       InsertTruncate(@, sp, codepoint, SUPPORTED_MAX_SZ)]
              ELSE info
    IN  [ret |-> r, consulted |-> TRUE,
         info |->
            IF np # NOT_SUPPORTED_MAX_SZ
            THEN [i1 EXCEPT !.not_supported =
                     InsertTruncate(@, np, codepoint, NOT_SUPPORTED_MAX_SZ)]
            ELSE i1]

UnknownHasCodepoint(info, font_codepoints, codepoint, sp, np) ==
    LET r == InCharset(font_codepoints, codepoint)
    IN  [ret |-> r, consulted |-> TRUE,
         info |->
            IF r
            THEN IF sp # SUPPORTED_MAX_SZ
                 THEN [info EXCEPT !.supported =
                          InsertTruncate(@, sp, codepoint, SUPPORTED_MAX_SZ)]
                 ELSE info
            ELSE IF np # NOT_SUPPORTED_MAX_SZ
                 THEN [info EXCEPT !.not_supported =
                          InsertTruncate(@, np, codepoint, NOT_SUPPORTED_MAX_SZ)]
                 ELSE info]

\* A has_codepoint that asks the font even for a cached codepoint.
HasCodepointNoCache(info, font_codepoints, codepoint) ==
    LET s == BinarySearch(info.supported, codepoint)
        n == BinarySearch(info.not_supported, codepoint)
    IN  IF s.found \/ n.found
        THEN [ret |-> InCharset(font_codepoints, codepoint), consulted |-> TRUE,
              info |-> info]
        ELSE UnknownHasCodepoint(info, font_codepoints, codepoint, s.pos, n.pos)

HasCodepoint(info, font_codepoints, codepoint) ==
    LET s == BinarySearch(info.supported, codepoint)
    IN  IF s.found THEN [ret |-> TRUE, consulted |-> FALSE, info |-> info]
        ELSE LET n == BinarySearch(info.not_supported, codepoint)
             IN  IF n.found THEN [ret |-> FALSE, consulted |-> FALSE, info |-> info]
                 ELSE UnknownHasCodepoint(info, font_codepoints, codepoint,
                                          s.pos, n.pos)

\* A step that counts a supported char only when the font was consulted.
WordStepCountConsulted(acc, font_codepoints, ch) ==
    LET h == HasCodepoint(acc.info, font_codepoints, ch)
    IN  [info      |-> h.info,
         count     |-> acc.count + (IF h.ret /\ h.consulted THEN 1 ELSE 0),
         answers   |-> Append(acc.answers, h.ret),
         consulted |-> IF h.consulted THEN Append(acc.consulted, ch)
                       ELSE acc.consulted]

\* One step of word.chars().filter(|ch| cache.has_codepoint(..)).count().
WordStep(acc, font_codepoints, ch) ==
    LET h == HasCodepoint(acc.info, font_codepoints, ch)
    IN  [info      |-> h.info,
         count     |-> acc.count + (IF h.ret THEN 1 ELSE 0),
         answers   |-> Append(acc.answers, h.ret),
         consulted |-> IF h.consulted THEN Append(acc.consulted, ch)
                       ELSE acc.consulted]

\* The chars lo..hi of the word in order, left half before right half.
RECURSIVE WordFold(_, _, _, _, _)
WordFold(acc, font_codepoints, word, lo, hi) ==
    IF lo > hi THEN acc
    ELSE IF lo = hi THEN WordStep(acc, font_codepoints, word[lo])
    ELSE LET mid  == (lo + hi) \div 2
             left == WordFold(acc, font_codepoints, word, lo, mid)
         IN  IF left.count >= 0
             THEN WordFold(left, font_codepoints, word, mid + 1, hi)
             ELSE left

GetFontSupportedCodepointsInWord(id, word) ==
    LET r == GetFontResult(font_cache, load_attempts, warn_log, id)
        info0 == IF id \in DOMAIN cp_cache THEN cp_cache[id] ELSE NewInfo
    IN  /\ font_cache' = r.fc
        /\ load_attempts' = r.la
        /\ warn_log' = r.wl
        /\ IF r.font.some
           THEN \E f \in {WordFold([info |-> info0, count |-> 0, answers |-> <<>>,
                                    consulted |-> <<>>],
                                   r.font.cps, word, 1, Len(word))} :
                /\ cp_cache' = Put(cp_cache, id, f.info)
                /\ ret' = [op |-> "codepoints_in_word", id |-> id, word |-> word,
                           some |-> TRUE, count |-> f.count, cps |-> r.font.cps,
                           answers |-> f.answers, consulted |-> f.consulted,
                           sup_before |-> Len(info0.supported),
                           nsup_before |-> Len(info0.not_supported)]
           ELSE /\ cp_cache' = cp_cache
                /\ ret' = [op |-> "codepoints_in_word", id |-> id, word |-> word,
                           some |-> FALSE, count |-> 0, cps |-> 0,
                           answers |-> <<>>, consulted |-> <<>>,
                           sup_before |-> 0, nsup_before |-> 0]
        /\ UNCHANGED <<db, issued, font_matches_cache, fallbacks,
                       monospace_font_ids, per_script_monospace_font_ids,
                       monospace_fallback>>

----------------------------------------------------------------------------
(* UnicodeRangeFallbacks: the table of fallback rules *)

None == <<>>

Some(v) == <<v>>

FallbackRule(start, end, font_id, weight, style) ==
    [start |-> start, end |-> end, font_id |-> font_id,
     weight |-> weight, style |-> style]

\* The caller holds the result of process_unicode_range_fallbacks until it
\* takes it; it makes no other call meanwhile.
Idle == ret.op # "process"

Return ==
    /\ ~Idle
    /\ ret' = [op |-> "returned"]
    /\ UNCHANGED <<db, issued, font_cache, font_matches_cache, cp_cache, fallbacks,
                   load_attempts, warn_log,
                   monospace_font_ids, per_script_monospace_font_ids,
                   monospace_fallback>>

\* A registration that replaces the table by the new rule.
AddReplacingTable(rule) ==
    /\ Idle
    /\ Len(fallbacks) < MaxRules
    /\ fallbacks' = <<rule>>
    /\ ret' = [op |-> "add_fallback", rule |-> rule]
    /\ UNCHANGED <<db, issued, font_cache, font_matches_cache, cp_cache,
                   load_attempts, warn_log,
                   monospace_font_ids, per_script_monospace_font_ids,
                   monospace_fallback>>

\* add_unicode_range_fallback_with_style: the rule is appended.
AddUnicodeRangeFallbackWithStyle(rule) ==
    /\ Idle
    /\ Len(fallbacks) < MaxRules
    /\ fallbacks' = Append(fallbacks, rule)
    /\ ret' = [op |-> "add_fallback", rule |-> rule]
    /\ UNCHANGED <<db, issued, font_cache, font_matches_cache, cp_cache,
                   load_attempts, warn_log,
                   monospace_font_ids, per_script_monospace_font_ids,
                   monospace_fallback>>

\* The greatest of a set of rule indices, 0 when there is none.
LastIndex(S) == IF S = {} THEN 0 ELSE CHOOSE i \in S : \A j \in S : j <= i

\* A find that takes the most recent rule containing the char, exact or
\* unconstrained alike.
FindMostRecentOfBothTiers(rules, c, weight, style) ==
    LET Hit(r) == /\ r.start <= c /\ c <= r.end
                  /\ \/ r.weight = None /\ r.style = None
                     \/ r.weight # None /\ r.style # None
                        /\ r.weight = weight /\ r.style = style
        h == LastIndex({i \in 1..Len(rules) : Hit(rules[i])})
    IN  IF h # 0 THEN Some(rules[h].font_id) ELSE None

\* A find that takes the first registered rule of a tier.
FindFirstRegistered(rules, c, weight, style) ==
    LET Exact(r) == /\ r.start <= c /\ c <= r.end
                    /\ r.weight # None /\ r.style # None
                    /\ r.weight = weight /\ r.style = style
        Plain(r) == /\ r.start <= c /\ c <= r.end
                    /\ r.weight = None /\ r.style = None
        E == {i \in 1..Len(rules) : Exact(rules[i])}
        U == {i \in 1..Len(rules) : Plain(rules[i])}
    IN  IF E # {} THEN Some(rules[CHOOSE i \in E : \A j \in E : i <= j].font_id)
        ELSE IF U # {} THEN Some(rules[CHOOSE i \in U : \A j \in U : i <= j].font_id)
        ELSE None

\* A find whose ranges exclude their end.
FindEndExclusive(rules, c, weight, style) ==
    LET Exact(r) == /\ r.start <= c /\ c < r.end
                    /\ r.weight # None /\ r.style # None
                    /\ r.weight = weight /\ r.style = style
        Plain(r) == /\ r.start <= c /\ c < r.end
                    /\ r.weight = None /\ r.style = None
        e == LastIndex({i \in 1..Len(rules) : Exact(rules[i])})
        u == LastIndex({i \in 1..Len(rules) : Plain(rules[i])})
    IN  IF e # 0 THEN Some(rules[e].font_id)
        ELSE IF u # 0 THEN Some(rules[u].font_id)
        ELSE None

\* A find that takes a rule when each constraint the rule carries equals the
\* request, the most recent such rule.
FindEachConstraintAlone(rules, c, weight, style) ==
    LET Hit(r) == /\ r.start <= c /\ c <= r.end
                  /\ r.weight = None \/ r.weight = weight
                  /\ r.style = None \/ r.style = style
        h == LastIndex({i \in 1..Len(rules) : Hit(rules[i])})
    IN  IF h # 0 THEN Some(rules[h].font_id) ELSE None

\* find_for_char_with_style: an exact weight-and-style rule first, then an
\* unconstrained one, the most recently registered of each kind.
FindForCharWithStyle(rules, c, weight, style) ==
    LET Exact(r) == /\ r.start <= c /\ c <= r.end
                    /\ r.weight # None /\ r.style # None
                    /\ r.weight = weight /\ r.style = style
        Plain(r) == /\ r.start <= c /\ c <= r.end
                    /\ r.weight = None /\ r.style = None
        e == LastIndex({i \in 1..Len(rules) : Exact(rules[i])})
        u == LastIndex({i \in 1..Len(rules) : Plain(rules[i])})
    IN  IF e # 0 THEN Some(rules[e].font_id)
        ELSE IF u # 0 THEN Some(rules[u].font_id)
        ELSE None

\* find_for_char: a find with no weight and no style requested.
FindForChar(rules, c) == FindForCharWithStyle(rules, c, None, None)

\* add_unicode_range_fallback: a rule without constraints is appended.
AddUnicodeRangeFallback(start, end, font_id) ==
    /\ Idle
    /\ Len(fallbacks) < MaxRules
    /\ fallbacks' = Append(fallbacks, FallbackRule(start, end, font_id, None, None))
    /\ ret' = [op |-> "add_fallback",
               rule |-> FallbackRule(start, end, font_id, None, None)]
    /\ UNCHANGED <<db, issued, font_cache, font_matches_cache, cp_cache,
                   load_attempts, warn_log,
                   monospace_font_ids, per_script_monospace_font_ids,
                   monospace_fallback>>

\* get_unicode_range_fallback_for_char
GetUnicodeRangeFallbackForChar(c) ==
    /\ Idle
    /\ ret' = [op |-> "find_char", c |-> c, result |-> FindForChar(fallbacks, c)]
    /\ UNCHANGED <<db, issued, font_cache, font_matches_cache, cp_cache, fallbacks,
                   load_attempts, warn_log,
                   monospace_font_ids, per_script_monospace_font_ids,
                   monospace_fallback>>

\* get_unicode_range_fallback_for_char_with_style
GetUnicodeRangeFallbackForCharWithStyle(c, weight, style) ==
    /\ Idle
    /\ ret' = [op |-> "find", c |-> c, weight |-> weight, style |-> style,
               result |-> FindForCharWithStyle(fallbacks, c, weight, style)]
    /\ UNCHANGED <<db, issued, font_cache, font_matches_cache, cp_cache, fallbacks,
                   load_attempts, warn_log,
                   monospace_font_ids, per_script_monospace_font_ids,
                   monospace_fallback>>

\* The family of a face: the model's faces come from two font files, the
\* one of charset 1 of family "Sans" and the one of charset 2 of family "Inter".
FaceFamily(face) == IF face.cps = 1 THEN "Sans" ELSE "Inter"

\* A registration by family name that installs a rule for font 0 when no face
\* has the family.
AddByNameInstallsAnyway(rules, d, start, end, family, weight, style) ==
    IF \E f \in d : FaceFamily(f) = family
    THEN {[result |-> "Ok",
           rules |-> Append(rules, FallbackRule(start, end, f.id, weight, style))] :
             f \in {g \in d : FaceFamily(g) = family}}
    ELSE {[result |-> "UnknownFamilyName",
           rules |-> Append(rules, FallbackRule(start, end, 0, weight, style))]}

\* The outcomes of a registration by family name: the family is resolved to
\* one of its faces, or the registration fails and installs nothing.
AddByName(rules, d, start, end, family, weight, style) ==
    IF \E f \in d : FaceFamily(f) = family
    THEN {[result |-> "Ok",
           rules |-> Append(rules, FallbackRule(start, end, f.id, weight, style))] :
             f \in {g \in d : FaceFamily(g) = family}}
    ELSE {[result |-> "UnknownFamilyName", rules |-> rules]}

\* add_unicode_range_fallback_name_with_style
AddUnicodeRangeFallbackNameWithStyle(start, end, family, weight, style) ==
    /\ Idle
    /\ \E o \in AddByName(fallbacks, db, start, end, family, weight, style) :
          /\ Len(o.rules) <= MaxRules
          /\ fallbacks' = o.rules
          /\ ret' = [op |-> "add_fallback_name", family |-> family,
                     result |-> o.result]
    /\ UNCHANGED <<db, issued, font_cache, font_matches_cache, cp_cache,
                   load_attempts, warn_log,
                   monospace_font_ids, per_script_monospace_font_ids,
                   monospace_fallback>>

\* A table that always claims to hold a rule.
AlwaysHasFallbacks == TRUE

\* has_unicode_range_fallbacks
HasUnicodeRangeFallbacks == fallbacks # <<>>

----------------------------------------------------------------------------
(* Text: a line is a sequence of chars, addressed by UTF-8 byte offsets *)

\* char::len_utf8
Utf8Len(c) == IF c < 128 THEN 1 ELSE IF c < 2048 THEN 2 ELSE IF c < 65536 THEN 3 ELSE 4

RECURSIVE ByteLen(_)
ByteLen(line) == IF line = <<>> THEN 0 ELSE Utf8Len(Head(line)) + ByteLen(Tail(line))

\* The byte offset of the i-th char of the line.
CharStart(line, i) == ByteLen(SubSeq(line, 1, i - 1))

\* str::is_char_boundary
IsCharBoundary(line, off) ==
    \E i \in 1..(Len(line) + 1) : CharStart(line, i) = off

\* line[off..].chars().next() for a boundary off below the line's length.
CharAt(line, off) == line[CHOOSE i \in 1..Len(line) : CharStart(line, i) = off]

----------------------------------------------------------------------------
(* The shaping collaborator: shape_fallback *)

ShapeGlyph(start, font_id, glyph_id) ==
    [start |-> start, font_id |-> font_id, glyph_id |-> glyph_id]

\* The char boundaries of the run [s, e).
RunBoundaries(line, s, e) == {o \in s..(e - 1) : IsCharBoundary(line, o)}

\* The ways the run can fall into clusters: the first starts at the run start.
ClusterSets(line, s, e) ==
    {C \in SUBSET RunBoundaries(line, s, e) : RunBoundaries(line, s, e) # {} => s \in C}

\* The glyphs of clusters C in logical (ascending) or visual RTL (descending)
\* order; a cluster of `double` gets two glyphs; a cluster of M has glyph 0.
RECURSIVE GlyphsOf(_, _, _, _, _)
GlyphsOf(font_id, C, M, double, rtl) ==
    IF C = {} THEN <<>>
    ELSE LET c == IF rtl THEN CHOOSE x \in C : \A y \in C : y <= x
                  ELSE CHOOSE x \in C : \A y \in C : x <= y
             g == ShapeGlyph(c, font_id, IF c \in M THEN 0 ELSE 1)
         IN  (IF c \in double THEN <<g, ShapeGlyph(c, font_id, 2)>> ELSE <<g>>)
             \o GlyphsOf(font_id, C \ {c}, M, double, rtl)

\* missing: the starts of the glyphs with glyph id 0, in glyph order.
RECURSIVE MissingOf(_)
MissingOf(glyphs) ==
    IF glyphs = <<>> THEN <<>>
    ELSE (IF Head(glyphs).glyph_id = 0 THEN <<Head(glyphs).start>> ELSE <<>>)
         \o MissingOf(Tail(glyphs))

\* What the shaper can make of the run: its clusters and, among them, the
\* ones the font has no glyph for.
ShapeChoices(line, s, e) ==
    {cm \in ClusterSets(line, s, e) \X SUBSET RunBoundaries(line, s, e) :
        cm[2] \subseteq cm[1]}

\* The result of shape_fallback for the run with this font: (missing, glyphs).
ShapeFallback(font_id, cm, rtl) ==
    [glyphs  |-> GlyphsOf(font_id, cm[1], cm[2], {}, rtl),
     missing |-> MissingOf(GlyphsOf(font_id, cm[1], cm[2], {}, rtl))]

----------------------------------------------------------------------------
(* process_unicode_range_fallbacks *)

SeqToSet(q) == {q[i] : i \in 1..Len(q)}

\* line[s..e] is a slice: s <= e <= line.len(), both on char boundaries.
IsSlice(line, s, e) ==
    /\ s <= e
    /\ IsCharBoundary(line, s)
    /\ IsCharBoundary(line, e)

\* The first loop: each position goes to its font's group or to the
\* positions without fallback; line[start_run..end_run] panics when the run
\* is no slice of the line, and so does slicing it off a char boundary.
RECURSIVE GroupMissing(_, _, _, _, _, _, _)
GroupMissing(acc, rules, line, attrs, s, e, missing) ==
    IF missing = <<>> \/ acc.panicked THEN acc
    ELSE LET pos == Head(missing)
             char_offset == IF pos >= s THEN pos - s ELSE 0
             rest == Tail(missing)
         IN  IF ~IsSlice(line, s, e)
             THEN [acc EXCEPT !.panicked = TRUE]
             ELSE IF char_offset >= e - s
             THEN GroupMissing([acc EXCEPT !.without = Append(@, pos)],
                               rules, line, attrs, s, e, rest)
             ELSE IF ~IsCharBoundary(line, s + char_offset)
             THEN [acc EXCEPT !.panicked = TRUE]
             ELSE LET c == CharAt(line, s + char_offset)
                      f == FindForCharWithStyle(rules, c, Some(attrs.weight),
                                                Some(attrs.style))
                  IN  IF f # None
                      THEN GroupMissing(
                              [acc EXCEPT !.groups =
                                  Put(@, f[1], (IF f[1] \in DOMAIN @ THEN @[f[1]]
                                                ELSE <<>>) \o <<pos>>)],
                              rules, line, attrs, s, e, rest)
                      ELSE GroupMissing([acc EXCEPT !.without = Append(@, pos)],
                                        rules, line, attrs, s, e, rest)

\* The index of the first glyph starting at pos, 0 when there is none.
FirstAt(glyphs, pos) ==
    IF \E i \in 1..Len(glyphs) : glyphs[i].start = pos
    THEN CHOOSE i \in 1..Len(glyphs) :
            glyphs[i].start = pos /\ \A j \in 1..(i - 1) : glyphs[j].start # pos
    ELSE 0

\* A loop body that takes the fallback glyph whatever fb_missing says.
RECURSIVE ApplyPositionsIgnoreMissing(_, _, _)
ApplyPositionsIgnoreMissing(acc, shape, positions) ==
    IF positions = <<>> THEN acc
    ELSE LET pos == Head(positions)
             fb  == FirstAt(shape.glyphs, pos)
             at  == FirstAt(acc.glyphs, pos)
             nxt == IF fb = 0 THEN acc
                    ELSE IF at # 0
                    THEN [acc EXCEPT !.glyphs[at] = shape.glyphs[fb]]
                    ELSE [acc EXCEPT !.glyphs = Append(@, shape.glyphs[fb])]
         IN  ApplyPositionsIgnoreMissing(nxt, shape, Tail(positions))

\* A loop body that pushes the fallback glyph also when the list holds a glyph
\* of that start.
RECURSIVE ApplyPositionsAlwaysPush(_, _, _)
ApplyPositionsAlwaysPush(acc, shape, positions) ==
    IF positions = <<>> THEN acc
    ELSE LET pos == Head(positions)
             fb  == FirstAt(shape.glyphs, pos)
             nxt == IF pos \notin SeqToSet(shape.missing)
                    THEN IF fb = 0 THEN acc
                         ELSE [acc EXCEPT !.glyphs = Append(@, shape.glyphs[fb])]
                    ELSE [acc EXCEPT !.remaining = Append(@, pos)]
         IN  ApplyPositionsAlwaysPush(nxt, shape, Tail(positions))

\* The body of `for pos in positions` for one shaped fallback font.
RECURSIVE ApplyPositions(_, _, _)
ApplyPositions(acc, shape, positions) ==
    IF positions = <<>> THEN acc
    ELSE LET pos == Head(positions)
             fb  == FirstAt(shape.glyphs, pos)
             at  == FirstAt(acc.glyphs, pos)
             nxt == IF pos \notin SeqToSet(shape.missing)
                    THEN IF fb = 0 THEN acc
                         ELSE IF at # 0
                         THEN [acc EXCEPT !.glyphs[at] = shape.glyphs[fb]]
                         ELSE [acc EXCEPT !.glyphs = Append(@, shape.glyphs[fb])]
                    ELSE [acc EXCEPT !.remaining = Append(@, pos)]
         IN  ApplyPositions(nxt, shape, Tail(positions))

\* A second loop that shapes the run once for every position of a group.
RECURSIVE ProcessGroupsShapePerPosition(_, _, _, _)
ProcessGroupsShapePerPosition(acc, groups, order, shapes) ==
    IF order = <<>> THEN acc
    ELSE LET font_id == Head(order)
             r == GetFontResult(acc.fc, acc.la, acc.wl, font_id)
             a1 == [acc EXCEPT !.fc = r.fc, !.la = r.la, !.wl = r.wl]
             a2 == IF r.font.some
                   THEN ApplyPositions(
                           [a1 EXCEPT !.shaped =
                               @ \o [i \in 1..Len(groups[font_id]) |-> font_id]],
                           shapes[font_id], groups[font_id])
                   ELSE [a1 EXCEPT !.remaining = @ \o groups[font_id]]
         IN  ProcessGroupsShapePerPosition(a2, groups, Tail(order), shapes)

\* A second loop that gives up at the first font that does not load.
RECURSIVE ProcessGroupsStopOnFailure(_, _, _, _)
ProcessGroupsStopOnFailure(acc, groups, order, shapes) ==
    IF order = <<>> THEN acc
    ELSE LET font_id == Head(order)
             r == GetFontResult(acc.fc, acc.la, acc.wl, font_id)
             a1 == [acc EXCEPT !.fc = r.fc, !.la = r.la, !.wl = r.wl]
         IN  IF r.font.some
             THEN ProcessGroupsStopOnFailure(
                     ApplyPositions([a1 EXCEPT !.shaped = Append(@, font_id)],
                                    shapes[font_id], groups[font_id]),
                     groups, Tail(order), shapes)
             ELSE a1

\* The second loop, over the groups in the order the map yields them.
RECURSIVE ProcessGroups(_, _, _, _)
ProcessGroups(acc, groups, order, shapes) ==
    IF order = <<>> THEN acc
    ELSE LET font_id == Head(order)
             r == GetFontResult(acc.fc, acc.la, acc.wl, font_id)
             a1 == [acc EXCEPT !.fc = r.fc, !.la = r.la, !.wl = r.wl]
             a2 == IF r.font.some
                   THEN ApplyPositions([a1 EXCEPT !.shaped = Append(@, font_id)],
                                       shapes[font_id], groups[font_id])
                   ELSE [a1 EXCEPT !.remaining = @ \o groups[font_id]]
         IN  ProcessGroups(a2, groups, Tail(order), shapes)

\* An insertion that puts a glyph before the glyphs of equal start.
RECURSIVE InsertGlyphBeforeEqual(_, _)
InsertGlyphBeforeEqual(g, q) ==
    IF q = <<>> THEN <<g>>
    ELSE IF g.start <= Head(q).start THEN <<g>> \o q
    ELSE <<Head(q)>> \o InsertGlyphBeforeEqual(g, Tail(q))

\* glyphs.sort_by_key(|g| g.start): a stable sort.
RECURSIVE InsertGlyph(_, _)
InsertGlyph(g, q) ==
    IF q = <<>> THEN <<g>>
    ELSE IF g.start < Head(q).start THEN <<g>> \o q
    ELSE <<Head(q)>> \o InsertGlyph(g, Tail(q))

RECURSIVE SortGlyphs(_)
SortGlyphs(q) ==
    IF q = <<>> THEN <<>>
    ELSE InsertGlyph(q[Len(q)], SortGlyphs(SubSeq(q, 1, Len(q) - 1)))

\* remaining_missing.sort()
RECURSIVE InsertPos(_, _)
InsertPos(x, q) ==
    IF q = <<>> THEN <<x>>
    ELSE IF x < Head(q) THEN <<x>> \o q
    ELSE <<Head(q)>> \o InsertPos(x, Tail(q))

\* A return that leaves the collected offsets in the order they were pushed.
SortPositionsKeepOrder(q) == q

RECURSIVE SortPositions(_)
SortPositions(q) ==
    IF q = <<>> THEN <<>>
    ELSE InsertPos(q[Len(q)], SortPositions(SubSeq(q, 1, Len(q) - 1)))

\* The orders in which a map with these keys can be iterated.
Orders(keys) ==
    {o \in [1..Cardinality(keys) -> keys] :
        \A i, j \in 1..Cardinality(keys) : i # j => o[i] # o[j]}

\* The fonts of the groups that get_font can hand out now.
Loadable(fc, keys) ==
    {k \in keys : IF k \in DOMAIN fc THEN fc[k].some ELSE FontNew(db, k).some}

\* The body of the function: what it returns and what get_font leaves in
\* the font cache.
ProcessCall(glyphs, line, attrs, s, e, rtl, missing) ==
    LET call == [op |-> "process", glyphs_in |-> glyphs, line |-> line,
                 attrs |-> attrs, start_run |-> s, end_run |-> e, rtl |-> rtl,
                 missing |-> missing, table_empty |-> ~HasUnicodeRangeFallbacks]
    IN  /\ Idle
        /\ IF ~HasUnicodeRangeFallbacks
           THEN /\ ret' = call @@
                          [panicked |-> FALSE, glyphs_out |-> glyphs,
                           residual |-> missing, shaped |-> <<>>,
                           groups |-> EmptyMap, shapes |-> EmptyMap,
                           merged |-> glyphs, remaining |-> missing]
                /\ UNCHANGED <<font_cache, load_attempts, warn_log>>
           ELSE \E g \in {GroupMissing([groups |-> EmptyMap, without |-> <<>>,
                                        panicked |-> FALSE],
                                       fallbacks, line, attrs, s, e, missing)} :
                IF g.panicked
                THEN /\ ret' = call @@
                               [panicked |-> TRUE, glyphs_out |-> glyphs,
                                residual |-> <<>>, shaped |-> <<>>,
                                groups |-> EmptyMap, shapes |-> EmptyMap,
                                merged |-> glyphs, remaining |-> <<>>]
                     /\ UNCHANGED <<font_cache, load_attempts, warn_log>>
                ELSE \E order \in Orders(DOMAIN g.groups) :
                     \E cms \in [Loadable(font_cache, DOMAIN g.groups) ->
                                    ShapeChoices(line, s, e)] :
                     \E shapes \in {[f \in DOMAIN cms |->
                                        ShapeFallback(f, cms[f], rtl)]} :
                     \E p \in {ProcessGroups([glyphs |-> glyphs,
                                              remaining |-> g.without,
                                              fc |-> font_cache,
                                              la |-> load_attempts,
                                              wl |-> warn_log, shaped |-> <<>>],
                                             g.groups, order, shapes)} :
                        /\ font_cache' = p.fc
                        /\ load_attempts' = p.la
                        /\ warn_log' = p.wl
                        /\ ret' = call @@
                                  [panicked |-> FALSE,
                                   glyphs_out |-> SortGlyphs(p.glyphs),
                                   residual |-> SortPositions(p.remaining),
                                   shaped |-> p.shaped, groups |-> g.groups,
                                   shapes |-> shapes, merged |-> p.glyphs,
                                   remaining |-> p.remaining]

\* A function that consumes the most recent rule of the table it used.
ProcessConsumingRule(glyphs, line, attrs, s, e, rtl, missing) ==
    /\ ProcessCall(glyphs, line, attrs, s, e, rtl, missing)
    /\ fallbacks' = SubSeq(fallbacks, 1, Len(fallbacks) - 1)
    /\ UNCHANGED <<db, issued, font_matches_cache, cp_cache,
                   monospace_font_ids, per_script_monospace_font_ids,
                   monospace_fallback>>

\* process_unicode_range_fallbacks: of the fields of the font system only
\* the font cache is written, by get_font.
ProcessUnicodeRangeFallbacks(glyphs, line, attrs, s, e, rtl, missing) ==
    /\ ProcessCall(glyphs, line, attrs, s, e, rtl, missing)
    /\ UNCHANGED <<db, issued, font_matches_cache, cp_cache, fallbacks,
                   monospace_font_ids, per_script_monospace_font_ids,
                   monospace_fallback>>

----------------------------------------------------------------------------
(* The monospace index: built by the constructor, read by is_monospace and
   get_monospace_ids_for_scripts *)

Emoji == <<"E", "m", "o", "j", "i">>

\* str::contains: pat occurs in name as a contiguous run of characters.
Contains(name, pat) ==
    \E i \in 0..(Len(name) - Len(pat)) :
        SubSeq(name, i + 1, i + Len(pat)) = pat

\* A filter that keeps emoji faces.
IsMonospaceFaceKeepEmoji(face_info) == face_info.monospaced

\* The filter closure of the constructor.
IsMonospaceFace(face_info) ==
    face_info.monospaced /\ ~Contains(face_info.post_script_name, Emoji)

RECURSIVE FilterMapIds(_)
FilterMapIds(faces) ==
    IF faces = <<>> THEN <<>>
    ELSE (IF IsMonospaceFace(Head(faces)) THEN <<Head(faces).id>> ELSE <<>>)
             \o FilterMapIds(Tail(faces))

RECURSIVE InsertId(_, _)
InsertId(x, q) ==
    IF q = <<>> THEN <<x>>
    ELSE IF x < Head(q) THEN <<x>> \o q
    ELSE <<Head(q)>> \o InsertId(x, Tail(q))

\* Vec::sort on ids: equal ids stay, in ascending order.
RECURSIVE SortIds(_)
SortIds(q) ==
    IF q = <<>> THEN <<>>
    ELSE InsertId(q[Len(q)], SortIds(SubSeq(q, 1, Len(q) - 1)))

\* db.faces().filter(..).map(|f| f.id).collect(), then sort().
MonospaceFontIds(d) == SortIds(FilterMapIds(Faces(d)))

\* per_script.entry(tag).or_default().insert(id) for each script of a face.
RECURSIVE InsertScripts(_, _, _)
InsertScripts(map, id, scripts) ==
    IF scripts = <<>> THEN map
    ELSE LET tag == Head(scripts)
             old == IF tag \in DOMAIN map THEN map[tag] ELSE {}
         IN  InsertScripts(Put(map, tag, old \cup {id}), id, Tail(scripts))

\* The scripts the closure of inspect() is called with. The closure given to
\* Result::map returns the adapter chain gpos.chain(gsub).flat_map(..)
\* .inspect(..) and `let _ =` drops it: nothing iterates it, so inspect's
\* closure is called for no script.
InspectedScripts(scripts) == SubSeq(scripts, 1, 0)

\* The for_each over monospace_font_ids: a face whose data does not parse
\* contributes nothing.
RECURSIVE IndexScripts(_, _, _)
IndexScripts(map, d, ids) ==
    IF ids = <<>> THEN map
    ELSE LET face == CHOOSE f \in d : f.id = Head(ids)
         IN  IndexScripts(IF face.ok
                              THEN InsertScripts(map, face.id,
                                                 InspectedScripts(face.scripts))
                              ELSE map,
                          d, Tail(ids))

\* Vec::from_iter(BTreeSet): the ids in ascending order.
RECURSIVE VecFromSet(_)
VecFromSet(S) ==
    IF S = {} THEN <<>>
    ELSE LET m == CHOOSE x \in S : \A y \in S : x <= y
         IN  <<m>> \o VecFromSet(S \ {m})

\* The per-script map; empty in a build without the monospace_fallback feature.
PerScriptMonospaceFontIds(d, ids, feature) ==
    IF ~feature THEN EmptyMap
    ELSE LET sets == IndexScripts(EmptyMap, d, ids)
         IN  [tag \in DOMAIN sets |-> VecFromSet(sets[tag])]

\* The two index fields as the constructor leaves them for the database db.
MonospaceIndexBuilt ==
    /\ monospace_font_ids = MonospaceFontIds(db)
    /\ per_script_monospace_font_ids =
           PerScriptMonospaceFontIds(db, monospace_font_ids, monospace_fallback)

IsMonospaceResult(ids, id) == BinarySearch(ids, id).found

IsMonospace(id) ==
    /\ Idle
    /\ ret' = [op |-> "is_monospace", id |-> id,
                result |-> IsMonospaceResult(monospace_font_ids, id)]
    /\ UNCHANGED <<db, issued, font_cache, font_matches_cache, cp_cache, fallbacks,
                   load_attempts, warn_log,
                   monospace_font_ids, per_script_monospace_font_ids,
                   monospace_fallback>>

\* scripts.filter_map(|s| map.get(&s)).flat_map(|ids| ids.iter().copied())
RECURSIVE FlatMapScripts(_, _)
FlatMapScripts(map, scripts) ==
    IF scripts = <<>> THEN <<>>
    ELSE (IF Head(scripts) \in DOMAIN map THEN map[Head(scripts)] ELSE <<>>)
             \o FlatMapScripts(map, Tail(scripts))

\* Vec::dedup: of consecutive equal elements only the first stays.
RECURSIVE Dedup(_)
Dedup(v) ==
    IF Len(v) <= 1 THEN v
    ELSE IF v[1] = v[2] THEN Dedup(Tail(v))
    ELSE <<v[1]>> \o Dedup(Tail(v))

MonospaceIdsForScripts(map, scripts) ==
    Dedup(SortIds(FlatMapScripts(map, scripts)))

GetMonospaceIdsForScripts(scripts) ==
    /\ Idle
    /\ ret' = [op |-> "get_monospace_ids_for_scripts", scripts |-> scripts,
                result |-> MonospaceIdsForScripts(per_script_monospace_font_ids,
                                                  scripts)]
    /\ UNCHANGED <<db, issued, font_cache, font_matches_cache, cp_cache, fallbacks,
                   load_attempts, warn_log,
                   monospace_font_ids, per_script_monospace_font_ids,
                   monospace_fallback>>

----------------------------------------------------------------------------
(* db_mut followed by a load through the returned reference *)

\* A db_mut that keeps the font-match cache.
KeepMatchesCache(cache) == cache

\* db_mut: self.font_matches_cache.clear()
DbMutClear(cache) == EmptyMap

\* A load that rebuilds the monospace index from the new database.
DbMutLoadFaceReindexing(face_info) ==
    /\ Cardinality(db) < MaxFaces
    /\ face_info.id = NextId
    /\ font_matches_cache' = DbMutClear(font_matches_cache)
    /\ db' = db \cup {face_info}
    /\ issued' = issued + 1
    /\ monospace_font_ids' = MonospaceFontIds(db')
    /\ per_script_monospace_font_ids' =
           PerScriptMonospaceFontIds(db', monospace_font_ids',
                                     monospace_fallback)
    /\ ret' = [op |-> "db_mut", id |-> NextId,
                dropped |-> DOMAIN font_matches_cache]
    /\ UNCHANGED <<font_cache, cp_cache, fallbacks, load_attempts, warn_log,
                   monospace_fallback>>

\* A load after which the font cache is empty as well.
DbMutLoadFaceDroppingFonts(face_info) ==
    /\ Cardinality(db) < MaxFaces
    /\ face_info.id = NextId
    /\ font_matches_cache' = DbMutClear(font_matches_cache)
    /\ font_cache' = EmptyMap
    /\ db' = db \cup {face_info}
    /\ issued' = issued + 1
    /\ ret' = [op |-> "db_mut", id |-> NextId,
                dropped |-> DOMAIN font_matches_cache]
    /\ UNCHANGED <<cp_cache, fallbacks, load_attempts, warn_log,
                   monospace_font_ids, per_script_monospace_font_ids,
                   monospace_fallback>>

\* db_mut() and a push of face_info through the reference it returns.
DbMutLoadFace(face_info) ==
    /\ Cardinality(db) < MaxFaces
    /\ face_info.id = NextId
    /\ font_matches_cache' = DbMutClear(font_matches_cache)
    /\ db' = db \cup {face_info}
    /\ issued' = issued + 1
    /\ ret' = [op |-> "db_mut", id |-> NextId,
                dropped |-> DOMAIN font_matches_cache]
    /\ UNCHANGED <<font_cache, cp_cache, fallbacks, load_attempts, warn_log,
                   monospace_font_ids, per_script_monospace_font_ids,
                   monospace_fallback>>

DbMutLoad(weight, style, ok, cps) ==
    DbMutLoadFace(FaceInfo(NextId, weight, style, ok, cps))

\* A removal that also forgets the face's handle and the rules that name it.
DbMutRemoveFacePurging(id) ==
    /\ font_matches_cache' = DbMutClear(font_matches_cache)
    /\ db' = {f \in db : f.id # id}
    /\ font_cache' = [i \in DOMAIN font_cache \ {id} |-> font_cache[i]]
    /\ fallbacks' = SelectSeq(fallbacks, LAMBDA r : r.font_id # id)
    /\ ret' = [op |-> "db_mut_remove", id |-> id,
                dropped |-> DOMAIN font_matches_cache]
    /\ UNCHANGED <<issued, cp_cache, load_attempts, warn_log,
                   monospace_font_ids, per_script_monospace_font_ids,
                   monospace_fallback>>

\* db_mut() and a remove_face(id) through the reference it returns.
DbMutRemoveFace(id) ==
    /\ font_matches_cache' = DbMutClear(font_matches_cache)
    /\ db' = {f \in db : f.id # id}
    /\ ret' = [op |-> "db_mut_remove", id |-> id,
                dropped |-> DOMAIN font_matches_cache]
    /\ UNCHANGED <<issued, font_cache, cp_cache, fallbacks, load_attempts, warn_log,
                   monospace_font_ids, per_script_monospace_font_ids,
                   monospace_fallback>>

----------------------------------------------------------------------------

Init ==
    /\ db = {}
    /\ issued = Cardinality(db)
    /\ font_cache = EmptyMap
    /\ font_matches_cache = EmptyMap
    /\ cp_cache = EmptyMap
    /\ fallbacks = <<>>
    /\ load_attempts = EmptyMap
    /\ warn_log = EmptyMap
    /\ ret = [op |-> "new"]
    /\ monospace_fallback = FALSE
    /\ MonospaceIndexBuilt

ProbeAttrs ==
    {Attrs("Sans", 450, "Normal", 0), Attrs("Sans", 450, "Normal", 1),
     Attrs("Sans", 250, "Normal", 0), Attrs("Serif", 250, "Italic", 0)}

NextMatch ==
    \/ \E a \in ProbeAttrs : GetFontMatches(a)
    \/ \E w \in {100, 400, 700}, s \in Styles : DbMutLoad(w, s, TRUE, 1)

SpecMatch == Init /\ [][NextMatch]_vars

\* Filling the match cache: the request is for the lowest weight not cached
\* yet, or for weight 1 again.
FillKey(w) == FontMatchAttrs(Attrs("Sans", w, "Normal", 0))

FreshWeight ==
    CHOOSE w \in 1..(FONT_MATCHES_CACHE_SIZE_LIMIT + 1) :
        /\ FillKey(w) \notin DOMAIN font_matches_cache
        /\ \A v \in 1..(w - 1) : FillKey(v) \in DOMAIN font_matches_cache

NextMatchCap ==
    \/ GetFontMatches(Attrs("Sans", FreshWeight, "Normal", 0))
    \/ GetFontMatches(Attrs("Sans", 1, "Normal", 0))
    \/ DbMutLoad(400, "Normal", TRUE, 1)

SpecMatchCap == Init /\ [][NextMatchCap]_vars

\* Words: runs of consecutive codepoints and a few short ones.
Range(lo, n) == [i \in 1..n |-> lo + i - 1]

LongWords == {Range(1001, 1560)}

ShortWords == {<<3, 2, 3>>, <<9000, 9001>>, <<999, 1000>>, <<2535, 999, 2535>>}

InitCp ==
    /\ db = {FaceInfo(1, 400, "Normal", TRUE, 2), FaceInfo(2, 700, "Normal", FALSE, 1)}
    /\ issued = Cardinality(db)
    /\ font_cache = EmptyMap
    /\ font_matches_cache = EmptyMap
    /\ cp_cache = EmptyMap
    /\ fallbacks = <<>>
    /\ load_attempts = EmptyMap
    /\ warn_log = EmptyMap
    /\ ret = [op |-> "new"]
    /\ monospace_fallback = FALSE
    /\ MonospaceIndexBuilt

NextCp ==
    \/ \E w \in LongWords \cup ShortWords : GetFontSupportedCodepointsInWord(1, w)
    \/ GetFontSupportedCodepointsInWord(2, <<3>>)

SpecCp == InitCp /\ [][NextCp]_vars

----------------------------------------------------------------------------
(* The pipeline on one run of one line of text *)

\* "aéa": a at byte 0, é at bytes 1..2, a at byte 3; the run is "éa".
Line == <<97, 233, 97>>

StartRun == CharStart(Line, 2)

EndRun == ByteLen(Line)

RunAttrs == Attrs("Sans", 400, "Normal", 0)

RECURSIVE SeqsUpTo(_, _)
SeqsUpTo(S, n) ==
    IF n = 0 THEN {<<>>}
    ELSE SeqsUpTo(S, n - 1) \cup
         {Append(q, x) : q \in {r \in SeqsUpTo(S, n - 1) : Len(r) = n - 1}, x \in S}

\* The missing lists of a pass: byte offsets in glyph order, ascending for a
\* left-to-right run and descending for a right-to-left one.
MissingLists(rtl) ==
    {q \in SeqsUpTo(0..ByteLen(Line), MaxMissing) :
        \A i \in 1..(Len(q) - 1) : IF rtl THEN q[i] >= q[i + 1] ELSE q[i] <= q[i + 1]}

\* The glyph lists a primary shaping pass of the run can have produced: one
\* glyph per char, the whole run as one cluster of two glyphs, or one cluster
\* per char with two glyphs for the first.
PrimaryGlyphs(rtl) ==
    {GlyphsOf(0, RunBoundaries(Line, StartRun, EndRun),
              RunBoundaries(Line, StartRun, EndRun), {}, rtl),
     GlyphsOf(0, {StartRun}, {StartRun}, {StartRun}, rtl),
     GlyphsOf(0, RunBoundaries(Line, StartRun, EndRun),
              RunBoundaries(Line, StartRun, EndRun), {StartRun}, rtl)}

RuleChoices ==
    {FallbackRule(97, 233, 1, None, None),
     FallbackRule(97, 97, 2, Some(400), Some("Normal")),
     FallbackRule(233, 233, 3, None, None)}

InitProc ==
    /\ db = {FaceInfo(1, 400, "Normal", TRUE, 1), FaceInfo(2, 400, "Normal", TRUE, 2),
             FaceInfo(3, 700, "Normal", FALSE, 1)}
    /\ issued = Cardinality(db)
    /\ font_cache = EmptyMap
    /\ font_matches_cache = EmptyMap
    /\ cp_cache = EmptyMap
    /\ fallbacks = <<>>
    /\ load_attempts = EmptyMap
    /\ warn_log = EmptyMap
    /\ ret = [op |-> "new"]
    /\ monospace_fallback = FALSE
    /\ MonospaceIndexBuilt

NextProc ==
    \/ \E rule \in RuleChoices : AddUnicodeRangeFallbackWithStyle(rule)
    \/ \E rtl \in BOOLEAN : \E m \in MissingLists(rtl), g \in PrimaryGlyphs(rtl) :
          ProcessUnicodeRangeFallbacks(g, Line, RunAttrs, StartRun, EndRun, rtl, m)
    \/ Return

SpecProc == InitProc /\ [][NextProc]_vars

----------------------------------------------------------------------------
(* Properties of the codepoint support cache *)

SeqSet(s) == {s[i] : i \in 1..Len(s)}

StrictlyAscending(s) == \A i \in 1..(Len(s) - 1) : s[i] < s[i + 1]

\* The codepoints of the last call's word that the font supports / lacks.
WordSupported == {c \in SeqSet(ret'.word) : InCharset(ret'.cps, c)}

WordUnsupported == {c \in SeqSet(ret'.word) : ~InCharset(ret'.cps, c)}

\* s2 holds the cap smallest elements of SeqSet(s1) \cup new.
KeepsSmallest(s1, s2, new, cap) ==
    /\ Len(s2) = cap
    /\ StrictlyAscending(s2)
    /\ SeqSet(s2) \subseteq SeqSet(s1) \cup new
    /\ \A x \in (SeqSet(s1) \cup new) \ SeqSet(s2) : x > s2[cap]

\* C4 as stated: once `supported` holds 512 entries (`not_supported` 1024),
\* no later query changes that sequence.
C4_FullSequenceNeverChanges ==
    [][\A id \in DOMAIN cp_cache :
          /\ Len(cp_cache[id].supported) = SUPPORTED_MAX_SZ
                => cp_cache'[id].supported = cp_cache[id].supported
          /\ Len(cp_cache[id].not_supported) = NOT_SUPPORTED_MAX_SZ
                => cp_cache'[id].not_supported = cp_cache[id].not_supported]_vars

\* What the code does at a full sequence, against C4: the sequence stays at
\* its cap and keeps the smallest codepoints seen. An uncached codepoint above
\* every cached entry is not inserted; one below the largest cached entry is
\* inserted in sorted position and the largest entry is dropped.
C4_FullSequenceKeepsSmallest ==
    [][\A id \in DOMAIN cp_cache :
          (ret'.op = "codepoints_in_word" /\ ret'.id = id /\ ret'.some) =>
          /\ Len(cp_cache[id].supported) = SUPPORTED_MAX_SZ
                => /\ KeepsSmallest(cp_cache[id].supported, cp_cache'[id].supported,
                                    WordSupported, SUPPORTED_MAX_SZ)
                   /\ (\A c \in WordSupported :
                          c > cp_cache[id].supported[SUPPORTED_MAX_SZ])
                      => cp_cache'[id].supported = cp_cache[id].supported
          /\ Len(cp_cache[id].not_supported) = NOT_SUPPORTED_MAX_SZ
                => /\ KeepsSmallest(cp_cache[id].not_supported,
                                    cp_cache'[id].not_supported,
                                    WordUnsupported, NOT_SUPPORTED_MAX_SZ)
                   /\ (\A c \in WordUnsupported :
                          c > cp_cache[id].not_supported[NOT_SUPPORTED_MAX_SZ])
                      => cp_cache'[id].not_supported = cp_cache[id].not_supported]_vars

\* The failing case of C4: a query on a full entry consulted the font for a
\* supported codepoint below the largest cached one, and for an unsupported
\* one too.
C4_Witness ==
    /\ ret.op = "codepoints_in_word" /\ ret.some
    /\ ret.sup_before = SUPPORTED_MAX_SZ
    /\ ret.nsup_before = NOT_SUPPORTED_MAX_SZ
    /\ \E c \in SeqSet(ret.consulted) :
          InCharset(ret.cps, c) /\ c < cp_cache[ret.id].supported[SUPPORTED_MAX_SZ]
    /\ \E c \in SeqSet(ret.consulted) :
          /\ ~InCharset(ret.cps, c)
          /\ c < cp_cache[ret.id].not_supported[NOT_SUPPORTED_MAX_SZ]

\* C8: whatever the history of the entry, has_codepoint answers true exactly
\* for the codepoints of the font's codepoint set.
C8_AnswerIsMembership ==
    (ret.op = "codepoints_in_word" /\ ret.some) =>
        /\ Len(ret.answers) = Len(ret.word)
        /\ \A i \in 1..Len(ret.word) :
              ret.answers[i] = InCharset(ret.cps, ret.word[i])

\* C8 witness: both sequences were at their caps and part of the word was
\* answered from the cache, with both answers occurring.
C8_Witness ==
    /\ ret.op = "codepoints_in_word" /\ ret.some
    /\ ret.sup_before = SUPPORTED_MAX_SZ
    /\ ret.nsup_before = NOT_SUPPORTED_MAX_SZ
    /\ Len(ret.consulted) < Len(ret.word)
    /\ \E i, j \in 1..Len(ret.word) : ret.answers[i] /\ ~ret.answers[j]

----------------------------------------------------------------------------
(* Properties of the font-match cache *)

\* C5: get_font_matches returns what a fresh computation over the current
\* faces returns, and no cached list differs from it: a list cached before a
\* mutation is not served after it.
C5_MatchesAreFresh ==
    /\ ret.op = "get_font_matches" => ret.keys = ComputeMatches(db, ret.attrs)
    /\ \A k \in DOMAIN font_matches_cache :
          font_matches_cache[k] = ComputeMatches(db, k)

\* C5 witness: a request whose cached list the last mutation dropped is
\* answered with a list that holds the face that mutation loaded.
C5_Witness ==
    /\ ret.op = "get_font_matches"
    /\ ret.refreshed
    /\ \E i \in 1..Len(ret.keys) : ret.keys[i].id = Cardinality(db)

\* The order of section 3: weight difference, then face weight, then id.
OrderedBefore(a, b) ==
    \/ a.font_weight_diff < b.font_weight_diff
    \/ a.font_weight_diff = b.font_weight_diff /\ a.font_weight < b.font_weight
    \/ /\ a.font_weight_diff = b.font_weight_diff
       /\ a.font_weight = b.font_weight
       /\ a.id < b.id

KeyWeights(keys) == [i \in 1..Len(keys) |-> keys[i].font_weight]

\* C9: the returned list ascends by weight difference, then face weight, then
\* id; faces of weight 100, 400, 700 asked for 450 come as 400, 700, 100.
C9_MatchesSorted ==
    ret.op = "get_font_matches" =>
        /\ \A i, j \in 1..Len(ret.keys) :
              i < j => OrderedBefore(ret.keys[i], ret.keys[j])
        /\ ( /\ ret.attrs.weight = 450
             /\ Len(ret.keys) = 3
             /\ {ret.keys[i].font_weight : i \in 1..3} = {100, 400, 700} )
           => KeyWeights(ret.keys) = <<400, 700, 100>>

\* C9 witness: the example of the claim, and a tie on the weight difference.
C9_Witness ==
    /\ ret.op = "get_font_matches"
    /\ ret.attrs.weight = 450
    /\ KeyWeights(ret.keys) = <<400, 700, 100>>

\* C10: the cache never holds more than 256 entries, and a call that finds it
\* holding 256 leaves it holding the one new entry.
C10_CacheBounded ==
    /\ Cardinality(DOMAIN font_matches_cache) <= FONT_MATCHES_CACHE_SIZE_LIMIT
    /\ ( /\ ret.op = "get_font_matches"
         /\ ~ret.was_cached
         /\ ret.size_before = FONT_MATCHES_CACHE_SIZE_LIMIT )
       => DOMAIN font_matches_cache = {FontMatchAttrs(ret.attrs)}

\* C10 witness: a miss on a cache of 256 entries.
C10_Witness ==
    /\ ret.op = "get_font_matches"
    /\ ~ret.was_cached
    /\ ret.size_before = FONT_MATCHES_CACHE_SIZE_LIMIT
    /\ Cardinality(DOMAIN font_matches_cache) = 1
    /\ ret.keys # <<>>

----------------------------------------------------------------------------
(* The caches under database mutations *)

NextFonts ==
    \/ \E id \in 1..MaxFaces : GetFont(id)
    \/ \E ok \in BOOLEAN : DbMutLoad(400, "Normal", ok, 1)
    \/ GetFontMatches(Attrs("Sans", 400, "Normal", 0))
    \/ \E id \in 1..MaxFaces : GetFontSupportedCodepointsInWord(id, <<2, 3, 2>>)

SpecFonts == Init /\ [][NextFonts]_vars

\* C6 as stated: after a mutation through db_mut both the font-match cache
\* and the codepoint support cache are empty.
C6_MutationEmptiesBothCaches ==
    ret.op = "db_mut" => font_matches_cache = EmptyMap /\ cp_cache = EmptyMap

\* C6 amended: a step that changes the database leaves the font-match cache
\* empty and the codepoint support cache exactly as it was.
C6_MutationEmptiesMatchCacheOnly ==
    [][db' # db => font_matches_cache' = EmptyMap /\ cp_cache' = cp_cache]_vars

\* C6 witness: a mutation dropped cached match lists while a font had cached
\* codepoint answers, which are still there.
C6_Witness ==
    /\ ret.op = "db_mut"
    /\ ret.dropped # {}
    /\ \E id \in DOMAIN cp_cache : cp_cache[id].supported # <<>>

\* C7: whatever is called in between, the load of an id is attempted at most
\* once and its failure warned about at most once; an id whose load failed
\* stays cached as None, is not loaded again, and get_font keeps returning None.
C7_LoadAttemptedOnce ==
    [][\A id \in 1..MaxFaces :
          /\ id \in DOMAIN load_attempts' => load_attempts'[id] <= 1
          /\ id \in DOMAIN warn_log' => warn_log'[id] <= 1
          /\ (id \in DOMAIN font_cache /\ ~font_cache[id].some) =>
                /\ id \in DOMAIN font_cache' /\ ~font_cache'[id].some
                /\ load_attempts'[id] = load_attempts[id]
                /\ (id \in DOMAIN warn_log') = (id \in DOMAIN warn_log)
                /\ (ret'.op = "get_font" /\ ret'.id = id) => ~ret'.font.some]_vars

\* C7 witness: get_font is asked again for an id whose load failed with a
\* warning, after a later face was loaded into the database.
C7_Witness ==
    /\ ret.op = "get_font"
    /\ ret.memo
    /\ ~ret.font.some
    /\ load_attempts[ret.id] = 1
    /\ ret.id \in DOMAIN warn_log
    /\ \E f \in db : f.id > ret.id

----------------------------------------------------------------------------
(* Properties of the fallback pipeline *)

Occurrences(q, x) == Cardinality({i \in 1..Len(q) : q[i] = x})

\* A glyph of a shaped fallback font starts at offset o in the returned list.
FromFallback(o) ==
    \E i \in 1..Len(ret.glyphs_out) :
        /\ ret.glyphs_out[i].start = o
        /\ \E f \in SeqToSet(ret.shaped) :
              ret.glyphs_out[i] \in SeqToSet(ret.shapes[f].glyphs)

\* C1 as stated: with a non-empty table every offset of `missing` is either
\* replaced or inserted from the fallback shaping, or is in the residual, not
\* both and not neither, and is in the residual no more often than in `missing`.
C1_EveryOffsetAccountedFor ==
    (ret.op = "process" /\ ~ret.table_empty /\ ~ret.panicked) =>
        \A o \in SeqToSet(ret.missing) :
            /\ FromFallback(o) \/ Occurrences(ret.residual, o) > 0
            /\ ~(FromFallback(o) /\ Occurrences(ret.residual, o) > 0)
            /\ Occurrences(ret.residual, o) <= Occurrences(ret.missing, o)

\* C2 as stated: the call never panics, and an offset inside the run that is
\* not on a char boundary of the line is in the residual.
C2_OffBoundaryGoesToResidual ==
    ret.op = "process" =>
        /\ ~ret.panicked
        /\ \A o \in SeqToSet(ret.missing) :
              ( /\ ret.start_run <= o /\ o < ret.end_run
                /\ ~IsCharBoundary(ret.line, o) )
              => o \in SeqToSet(ret.residual)

\* C3 as stated: with an empty `missing` the residual is empty and the glyph
\* list is the same list in the same order, whatever the table holds.
C3_EmptyMissingIsNoOp ==
    (ret.op = "process" /\ ret.missing = <<>>) =>
        /\ ret.residual = <<>>
        /\ ret.glyphs_out = ret.glyphs_in

\* Offset o went to the group of a font that loaded and whose shaping of the
\* run has a glyph starting at o and does not report o missing.
ResolvedBy(o) ==
    \E f \in SeqToSet(ret.shaped) :
        /\ o \in SeqToSet(ret.groups[f])
        /\ o \notin SeqToSet(ret.shapes[f].missing)
        /\ FirstAt(ret.shapes[f].glyphs, o) # 0

GlyphsAt(glyphs, o) == {i \in 1..Len(glyphs) : glyphs[i].start = o}

\* C11 as stated: when every offset of `missing` is resolved by a fallback
\* font, the residual is empty and exactly one glyph of the returned list
\* starts at each of those offsets, however many the primary pass had there.
C11_OneGlyphPerResolvedOffset ==
    ( /\ ret.op = "process" /\ ~ret.table_empty /\ ~ret.panicked
      /\ \A o \in SeqToSet(ret.missing) : ResolvedBy(o) )
    => /\ ret.residual = <<>>
       /\ \A o \in SeqToSet(ret.missing) :
             Cardinality(GlyphsAt(ret.glyphs_out, o)) = 1

\* C12: a call shapes the run at most once per fallback font, only for fonts
\* that some offset resolved to, and only for fonts whose handle loaded.
C12_ShapedOncePerFont ==
    ret.op = "process" =>
        /\ \A i, j \in 1..Len(ret.shaped) : i # j => ret.shaped[i] # ret.shaped[j]
        /\ SeqToSet(ret.shaped) \subseteq DOMAIN ret.groups
        /\ \A f \in SeqToSet(ret.shaped) :
              f \in DOMAIN font_cache /\ font_cache[f].some

\* C12 witness: two different offsets resolved to one font, which was shaped
\* once.
C12_Witness ==
    /\ ret.op = "process"
    /\ \E f \in DOMAIN ret.groups :
          /\ Len(ret.groups[f]) = 2
          /\ ret.groups[f][1] # ret.groups[f][2]
          /\ ret.shaped = <<f>>

\* The glyphs of a list that start at offset o, in list order.
GlyphsSeqAt(glyphs, o) == SelectSeq(glyphs, LAMBDA g : g.start = o)

\* C13: the offsets of a group whose font does not load are all in the
\* residual and the glyphs at them are the ones passed in; the groups whose
\* font loads are shaped all the same.
C13_FailedGroupGoesToResidual ==
    (ret.op = "process" /\ ~ret.table_empty /\ ~ret.panicked) =>
        \A f \in DOMAIN ret.groups :
            IF f \in DOMAIN font_cache /\ font_cache[f].some
            THEN f \in SeqToSet(ret.shaped)
            ELSE /\ f \notin SeqToSet(ret.shaped)
                 /\ \A o \in SeqToSet(ret.groups[f]) :
                       /\ Occurrences(ret.residual, o) = Occurrences(ret.missing, o)
                       /\ GlyphsSeqAt(ret.glyphs_out, o) = GlyphsSeqAt(ret.glyphs_in, o)

\* C13 witness: one group's font failed to load, its offset is in the
\* residual, and another group's font put a glyph into the list.
C13_Witness ==
    /\ ret.op = "process"
    /\ \E f \in DOMAIN ret.groups :
          /\ f \notin SeqToSet(ret.shaped)
          /\ \E o \in SeqToSet(ret.groups[f]) : o \in SeqToSet(ret.residual)
    /\ \E o \in SeqToSet(ret.missing) : FromFallback(o)

\* C14: a call made while no rule is registered returns `missing` as it is,
\* leaves the glyph list as it is, loads no font and shapes nothing.
C14_EmptyTableFastPath ==
    [][(ret'.op = "process" /\ fallbacks = <<>>) =>
          /\ ~ret'.panicked
          /\ ret'.residual = ret'.missing
          /\ ret'.glyphs_out = ret'.glyphs_in
          /\ ret'.shaped = <<>>
          /\ font_cache' = font_cache
          /\ load_attempts' = load_attempts]_vars

\* C14 witness: the fast path returned a descending `missing` and left a
\* descending glyph list alone.
C14_Witness ==
    /\ ret.op = "process"
    /\ fallbacks = <<>>
    /\ Len(ret.missing) = 2 /\ ret.missing[1] > ret.missing[2]
    /\ ret.residual = ret.missing
    /\ Len(ret.glyphs_in) = 2 /\ ret.glyphs_in[1].start > ret.glyphs_in[2].start

\* C15: with a non-empty table the returned glyph list is the merged list in
\* non-decreasing order of start, glyphs of equal start in the order they had,
\* and the residual is the collected offsets in ascending order.
C15_SortedOnReturn ==
    (ret.op = "process" /\ ~ret.table_empty /\ ~ret.panicked) =>
        /\ \A i \in 1..(Len(ret.glyphs_out) - 1) :
              ret.glyphs_out[i].start <= ret.glyphs_out[i + 1].start
        /\ Len(ret.glyphs_out) = Len(ret.merged)
        /\ \A o \in 0..ByteLen(ret.line) :
              GlyphsSeqAt(ret.glyphs_out, o) = GlyphsSeqAt(ret.merged, o)
        /\ \A i \in 1..(Len(ret.residual) - 1) :
              ret.residual[i] <= ret.residual[i + 1]
        /\ \A o \in 0..ByteLen(ret.line) :
              Occurrences(ret.residual, o) = Occurrences(ret.remaining, o)

\* C15 witness: the merged list was out of order and held two different
\* glyphs of one start, and the collected offsets were out of order.
C15_Witness ==
    /\ ret.op = "process" /\ ~ret.table_empty /\ ~ret.panicked
    /\ ret.merged # ret.glyphs_out
    /\ \E i, j \in 1..Len(ret.merged) :
          /\ i < j
          /\ ret.merged[i].start = ret.merged[j].start
          /\ ret.merged[i] # ret.merged[j]
    /\ ret.remaining # ret.residual

\* C16: an offset that its fallback font's shaping of the run reports missing
\* is in the residual, and the glyphs starting at it are the ones passed in.
C16_CandidateMissingGoesToResidual ==
    (ret.op = "process" /\ ~ret.table_empty /\ ~ret.panicked) =>
        \A f \in SeqToSet(ret.shaped) :
            \A o \in SeqToSet(ret.groups[f]) \cap SeqToSet(ret.shapes[f].missing) :
                /\ Occurrences(ret.residual, o) = Occurrences(ret.missing, o)
                /\ GlyphsSeqAt(ret.glyphs_out, o) = GlyphsSeqAt(ret.glyphs_in, o)

\* C16 witness: of two offsets of one loaded font, the shaping reports one
\* missing, which is in the residual, and covers the other, which got a glyph.
C16_Witness ==
    /\ ret.op = "process" /\ ~ret.panicked
    /\ \E f \in SeqToSet(ret.shaped) :
          \E o1, o2 \in SeqToSet(ret.groups[f]) :
              /\ o1 \in SeqToSet(ret.shapes[f].missing)
              /\ o1 \in SeqToSet(ret.residual)
              /\ o2 \notin SeqToSet(ret.shapes[f].missing)
              /\ FromFallback(o2)

\* C17 as stated: with a non-empty table an offset below start_run or at or
\* after end_run is put in no font's group and is in the residual.
C17_OutOfRunGoesToResidual ==
    (ret.op = "process" /\ ~ret.table_empty /\ ~ret.panicked) =>
        \A o \in SeqToSet(ret.missing) :
            (o < ret.start_run \/ o >= ret.end_run) =>
                /\ \A f \in DOMAIN ret.groups : o \notin SeqToSet(ret.groups[f])
                /\ o \in SeqToSet(ret.residual)

----------------------------------------------------------------------------
(* More properties of the codepoint support cache *)

\* The codepoints recorded in an entry, as supported or as not supported.
Recorded(info) == SeqSet(info.supported) \cup SeqSet(info.not_supported)

\* C18: no entry holds a codepoint in both of its sequences.
C18_SequencesDisjoint ==
    \A id \in DOMAIN cp_cache :
        SeqSet(cp_cache[id].supported) \cap SeqSet(cp_cache[id].not_supported) = {}

\* C18 witness: an entry with both sequences at their caps, each holding a
\* codepoint that was inserted after the cap was reached.
C18_Witness ==
    \E id \in DOMAIN cp_cache :
        /\ Len(cp_cache[id].supported) = SUPPORTED_MAX_SZ
        /\ Len(cp_cache[id].not_supported) = NOT_SUPPORTED_MAX_SZ
        /\ cp_cache[id].supported[1] = 3
        /\ cp_cache[id].not_supported[1] = 2

\* C19 as stated: a codepoint recorded in the entry before a call is not
\* looked up in the font's codepoint set during the call.
C19_RecordedIsNeverConsulted ==
    [][(ret'.op = "codepoints_in_word" /\ ret'.some /\ ret'.id \in DOMAIN cp_cache) =>
          Recorded(cp_cache[ret'.id]) \cap SeqSet(ret'.consulted) = {}]_vars

\* What the code does, against C19: a codepoint recorded before a call and
\* still recorded after it is not looked up in the font during the call; a
\* codepoint is dropped from a sequence only if the sequence is at its cap
\* afterwards and a smaller codepoint was looked up in the font and inserted.
C19_RecordedWhileKeptIsNotConsulted ==
    [][(ret'.op = "codepoints_in_word" /\ ret'.some /\ ret'.id \in DOMAIN cp_cache) =>
          /\ ( Recorded(cp_cache[ret'.id]) \cap Recorded(cp_cache'[ret'.id]) )
                \cap SeqSet(ret'.consulted) = {}
          /\ \A c \in SeqSet(cp_cache[ret'.id].supported)
                        \ SeqSet(cp_cache'[ret'.id].supported) :
                /\ Len(cp_cache'[ret'.id].supported) = SUPPORTED_MAX_SZ
                /\ \E d \in SeqSet(ret'.consulted) :
                      d < c /\ d \in SeqSet(cp_cache'[ret'.id].supported)
          /\ \A c \in SeqSet(cp_cache[ret'.id].not_supported)
                        \ SeqSet(cp_cache'[ret'.id].not_supported) :
                /\ Len(cp_cache'[ret'.id].not_supported) = NOT_SUPPORTED_MAX_SZ
                /\ \E d \in SeqSet(ret'.consulted) :
                      d < c /\ d \in SeqSet(cp_cache'[ret'.id].not_supported)]_vars

\* The failing case of C19: a word asks for one codepoint twice with another
\* in between; the first query is answered from the cache, the one in between
\* drops the codepoint from the full sequence, and the last query goes to the
\* font.
C19_Witness ==
    /\ ret.op = "codepoints_in_word" /\ ret.some
    /\ ret.sup_before = SUPPORTED_MAX_SZ
    /\ Len(ret.word) = 3
    /\ ret.word[1] = ret.word[3]
    /\ ret.consulted = <<ret.word[2], ret.word[3]>>
    /\ ret.word[2] \in SeqSet(cp_cache[ret.id].supported)
    /\ ret.word[3] \notin Recorded(cp_cache[ret.id])

\* C20: `supported` never holds more than 512 codepoints nor `not_supported`
\* more than 1024, and both are strictly ascending.
C20_BoundedAndSorted ==
    \A id \in DOMAIN cp_cache :
        /\ Len(cp_cache[id].supported) <= SUPPORTED_MAX_SZ
        /\ Len(cp_cache[id].not_supported) <= NOT_SUPPORTED_MAX_SZ
        /\ StrictlyAscending(cp_cache[id].supported)
        /\ StrictlyAscending(cp_cache[id].not_supported)

\* C20 witness: the last call found both sequences at their caps and
\* inserted a codepoint into each.
C20_Witness ==
    /\ ret.op = "codepoints_in_word" /\ ret.some
    /\ ret.sup_before = SUPPORTED_MAX_SZ
    /\ ret.nsup_before = NOT_SUPPORTED_MAX_SZ
    /\ \E c, d \in SeqSet(ret.consulted) :
          /\ c \in SeqSet(cp_cache[ret.id].supported)
          /\ d \in SeqSet(cp_cache[ret.id].not_supported)

\* C21: the count is the number of positions of the word whose char is in
\* the codepoint set of the face; a font that does not load gives no count
\* and gets no entry in the codepoint support cache.
C21_CountsSupportedOccurrences ==
    ret.op = "codepoints_in_word" =>
        IF ret.some
        THEN /\ HasFace(ret.id)
             /\ ret.count = Cardinality({i \in 1..Len(ret.word) :
                                InCharset(Face(ret.id).cps, ret.word[i])})
        ELSE /\ ret.count = 0
             /\ ret.id \notin DOMAIN cp_cache

\* C21 witness: a word with a repeated supported char and an unsupported one
\* was counted, and another id failed to load and has no entry.
C21_Witness ==
    /\ ret.op = "codepoints_in_word" /\ ret.some
    /\ Len(ret.word) = 3 /\ ret.word[1] = ret.word[3]
    /\ ret.count = 2
    /\ \E id \in DOMAIN font_cache : ~font_cache[id].some /\ id \notin DOMAIN cp_cache

----------------------------------------------------------------------------
(* More properties of the font-match cache *)

\* C22: the returned list has exactly one key for every face of the database
\* that the attributes match and none for another face; a key holds the
\* face's id, its weight and the distance of that weight from the request.
C22_OneKeyPerMatchingFace ==
    ret.op = "get_font_matches" =>
        /\ SeqSet(ret.keys) =
              {[font_weight_diff |-> AbsDiff(ret.attrs.weight, f.weight),
                font_weight |-> f.weight, id |-> f.id] :
                  f \in {g \in db : Matches(ret.attrs, g)}}
        /\ Len(ret.keys) = Cardinality({g \in db : Matches(ret.attrs, g)})

\* C22 witness: the database holds faces the attributes match and a face
\* they do not match, and the weights of two matching faces differ.
C22_Witness ==
    /\ ret.op = "get_font_matches"
    /\ Len(ret.keys) >= 2
    /\ Len(ret.keys) < Cardinality(db)
    /\ \E i, j \in 1..Len(ret.keys) :
          ret.keys[i].font_weight_diff # ret.keys[j].font_weight_diff

----------------------------------------------------------------------------
(* The fallback table: registrations and lookups *)

\* a-z to font 1; f-z bold to font 2; a-f to font 3; g-r to font 2; a-z bold
\* to font 1.
TableRules ==
    {FallbackRule(97, 122, 1, None, None),
     FallbackRule(102, 122, 2, Some(700), Some("Normal")),
     FallbackRule(97, 102, 3, None, None),
     FallbackRule(103, 114, 2, None, None),
     FallbackRule(97, 122, 1, Some(700), Some("Normal"))}

\* A, a, c, f, g, m, r, z
TableChars == {65, 97, 99, 102, 103, 109, 114, 122}

NextTable ==
    \/ \E rule \in {r \in TableRules : r.weight # None} :
          AddUnicodeRangeFallbackWithStyle(rule)
    \/ \E rule \in {r \in TableRules : r.weight = None} :
          AddUnicodeRangeFallback(rule.start, rule.end, rule.font_id)
    \/ \E c \in TableChars : GetUnicodeRangeFallbackForChar(c)
    \/ \E c \in TableChars, w \in {400, 700} :
          GetUnicodeRangeFallbackForCharWithStyle(c, Some(w), Some("Normal"))
    \/ \E family \in {"Sans", "Inter"} :
          AddUnicodeRangeFallbackNameWithStyle(97, 122, family, Some(700),
                                               Some("Normal"))
    \/ DbMutLoad(400, "Normal", TRUE, 1)

SpecTable == Init /\ [][NextTable]_vars

\* The lifetime of the table: registrations interleaved with every other
\* operation of the font system that could touch it.
LifeRules ==
    { FallbackRule(97, 122, 1, None, None),
      FallbackRule(102, 122, 2, Some(700), Some("Normal")) }

NextLife ==
    \/ \E rule \in {r \in LifeRules : r.weight # None} :
          AddUnicodeRangeFallbackWithStyle(rule)
    \/ \E rule \in {r \in LifeRules : r.weight = None} :
          AddUnicodeRangeFallback(rule.start, rule.end, rule.font_id)
    \/ AddUnicodeRangeFallbackNameWithStyle(97, 122, "Inter", Some(700),
                                            Some("Normal"))
    \/ GetUnicodeRangeFallbackForChar(97)
    \/ GetUnicodeRangeFallbackForCharWithStyle(102, Some(700), Some("Normal"))
    \/ DbMutLoad(400, "Normal", TRUE, 1)
    \/ GetFont(1)
    \/ GetFontMatches(Attrs("Sans", 400, "Normal", 0))
    \/ GetFontSupportedCodepointsInWord(1, <<2, 3, 2>>)
    \/ ProcessUnicodeRangeFallbacks(
           GlyphsOf(0, RunBoundaries(Line, StartRun, EndRun),
                    RunBoundaries(Line, StartRun, EndRun), {}, FALSE),
           Line, RunAttrs, StartRun, EndRun, FALSE, <<1, 3>>)
    \/ Return

SpecLife == Init /\ [][NextLife]_vars

\* The monospace index: construction from a database of up to MaxFaces - 1
\* faces, then queries, loads and the other operations.
MonoName == <<"M", "o", "n", "o">>
ColorEmojiName == <<"C", "o", "l", "o", "r", "E", "m", "o", "j", "i", "M">>
LowerEmojiName == <<"e", "m", "o", "j", "i">>

FaceKind(ok, monospaced, post_script_name, scripts) ==
    [ok |-> ok, monospaced |-> monospaced,
     post_script_name |-> post_script_name, scripts |-> scripts]

FaceKinds ==
    { FaceKind(TRUE, TRUE, MonoName, <<"latn", "cyrl", "latn">>),
      FaceKind(FALSE, TRUE, MonoName, <<"latn">>),
      FaceKind(TRUE, TRUE, ColorEmojiName, <<"latn">>),
      FaceKind(TRUE, TRUE, LowerEmojiName, <<"cyrl">>),
      FaceKind(TRUE, FALSE, MonoName, <<"latn">>) }

LoadedKinds ==
    { FaceKind(TRUE, TRUE, MonoName, <<"latn", "cyrl", "latn">>),
      FaceKind(TRUE, TRUE, ColorEmojiName, <<"latn">>) }

KindFace(id, kind) ==
    MonoFaceInfo(id, 400, "Normal", kind.ok, 1, kind.monospaced,
                 kind.post_script_name, kind.scripts)

ScriptQueries ==
    { <<"latn">>, <<"latn", "latn">>, <<"arab">>, <<"latn", "arab", "cyrl">> }

InitMono ==
    /\ \E n \in 0..(MaxFaces - 1) :
          \E kinds \in [1..n -> FaceKinds] :
              db = {KindFace(i, kinds[i]) : i \in 1..n}
    /\ issued = Cardinality(db)
    /\ font_cache = EmptyMap
    /\ font_matches_cache = EmptyMap
    /\ cp_cache = EmptyMap
    /\ fallbacks = <<>>
    /\ load_attempts = EmptyMap
    /\ warn_log = EmptyMap
    /\ ret = [op |-> "new"]
    /\ monospace_fallback \in BOOLEAN
    /\ MonospaceIndexBuilt

NextMono ==
    \/ \E id \in 1..MaxFaces : IsMonospace(id)
    \/ \E scripts \in ScriptQueries : GetMonospaceIdsForScripts(scripts)
    \/ \E kind \in LoadedKinds : DbMutLoadFace(KindFace(NextId, kind))
    \/ GetFont(1)
    \/ GetFontMatches(Attrs("Sans", 400, "Normal", 0))
    \/ AddUnicodeRangeFallback(97, 122, 1)

SpecMono == InitMono /\ [][NextMono]_vars

\* The rules of the table whose range holds c (both ends included) and
\* whose constraints are both present and equal to the request.
ExactRules(c, weight, style) ==
    {i \in 1..Len(fallbacks) :
        /\ fallbacks[i].start <= c /\ c <= fallbacks[i].end
        /\ fallbacks[i].weight # None /\ fallbacks[i].style # None
        /\ fallbacks[i].weight = weight /\ fallbacks[i].style = style}

\* The rules of the table whose range holds c and that have no constraint.
PlainRules(c) ==
    {i \in 1..Len(fallbacks) :
        /\ fallbacks[i].start <= c /\ c <= fallbacks[i].end
        /\ fallbacks[i].weight = None /\ fallbacks[i].style = None}

\* C23: an exact rule is preferred to an unconstrained one whichever was
\* registered later, and an unconstrained one is returned only when there is
\* no exact rule; with a-z -> 1 and f-z bold -> 2, g gives 2 for bold and 1
\* for normal.
C23_ExactBeforeUnconstrained ==
    ret.op = "find" =>
        /\ ExactRules(ret.c, ret.weight, ret.style) # {} =>
              \E i \in ExactRules(ret.c, ret.weight, ret.style) :
                  ret.result = Some(fallbacks[i].font_id)
        /\ ( /\ ExactRules(ret.c, ret.weight, ret.style) = {}
             /\ PlainRules(ret.c) # {} ) =>
              \E i \in PlainRules(ret.c) : ret.result = Some(fallbacks[i].font_id)
        /\ ( /\ SeqSet(fallbacks) =
                   {FallbackRule(97, 122, 1, None, None),
                    FallbackRule(102, 122, 2, Some(700), Some("Normal"))}
             /\ ret.c = 103 ) =>
              ret.result = IF ret.weight = Some(700) THEN Some(2) ELSE Some(1)

\* C23 witness: the exact rule was registered first and the unconstrained
\* rule after it, and the bold request for g still gets the exact rule's font.
C23_Witness ==
    /\ ret.op = "find" /\ ret.c = 103 /\ ret.weight = Some(700)
    /\ fallbacks = <<FallbackRule(102, 122, 2, Some(700), Some("Normal")),
                     FallbackRule(97, 122, 1, None, None)>>
    /\ ret.result = Some(2)

\* C24: of the rules of the winning tier that hold the char, the one
\* registered last gives the result.
C24_MostRecentWinsInTier ==
    ret.op = "find" =>
        /\ \A i \in ExactRules(ret.c, ret.weight, ret.style) :
              (\A j \in ExactRules(ret.c, ret.weight, ret.style) : j <= i)
              => ret.result = Some(fallbacks[i].font_id)
        /\ ExactRules(ret.c, ret.weight, ret.style) = {} =>
              \A i \in PlainRules(ret.c) :
                  (\A j \in PlainRules(ret.c) : j <= i)
                  => ret.result = Some(fallbacks[i].font_id)

\* C24 witness: two exact rules for different fonts hold the char and the
\* later one's font is returned.
C24_Witness ==
    /\ ret.op = "find"
    /\ Len(fallbacks) >= 2
    /\ {1, 2} \subseteq ExactRules(ret.c, ret.weight, ret.style)
    /\ fallbacks[1].font_id # fallbacks[2].font_id
    /\ ret.result = Some(fallbacks[Len(fallbacks)].font_id)

\* C25: a char in no registered range gives None; ranges include both of
\* their ends: with a-f -> 3 and g-r -> 2, a, c and f give 3, g, m and r give
\* 2, and z gives None.
C25_InclusiveRangesAndNone ==
    ret.op = "find_char" =>
        /\ (\A i \in 1..Len(fallbacks) :
               ret.c < fallbacks[i].start \/ ret.c > fallbacks[i].end)
           => ret.result = None
        /\ PlainRules(ret.c) # {} =>
              \E i \in PlainRules(ret.c) : ret.result = Some(fallbacks[i].font_id)
        /\ fallbacks = <<FallbackRule(97, 102, 3, None, None),
                         FallbackRule(103, 114, 2, None, None)>>
           => ret.result = IF ret.c \in {97, 99, 102} THEN Some(3)
                           ELSE IF ret.c \in {103, 109, 114} THEN Some(2)
                           ELSE None

\* C25 witness: with a-f -> 3 and g-r -> 2 registered, the last char of the
\* first range is looked up.
C25_Witness ==
    /\ ret.op = "find_char" /\ ret.c = 102
    /\ fallbacks = <<FallbackRule(97, 102, 3, None, None),
                     FallbackRule(103, 114, 2, None, None)>>
    /\ ret.result = Some(3)

\* C26: a registration by the name of a family that no face of the database
\* has fails with UnknownFamilyName and leaves the table, the answer of
\* has_unicode_range_fallbacks and the result of every lookup as they were.
C26_UnknownFamilyInstallsNothing ==
    [][(ret'.op = "add_fallback_name"
          /\ ~\E f \in db : FaceFamily(f) = ret'.family) =>
          /\ ret'.result = "UnknownFamilyName"
          /\ fallbacks' = fallbacks
          /\ HasUnicodeRangeFallbacks' = HasUnicodeRangeFallbacks
          /\ \A c \in TableChars, w \in {None, Some(400), Some(700)} :
                FindForCharWithStyle(fallbacks', c, w, Some("Normal")) =
                FindForCharWithStyle(fallbacks, c, w, Some("Normal"))]_vars

\* C26 witness: the database has faces, none of the family asked for, the
\* registration failed and the table still holds its earlier rule.
C26_Witness ==
    /\ ret.op = "add_fallback_name"
    /\ ret.result = "UnknownFamilyName"
    /\ db # {}
    /\ Len(fallbacks) = 1

\* s is t or t followed by further rules.
IsPrefix(t, s) == Len(t) <= Len(s) /\ SubSeq(s, 1, Len(t)) = t

\* C27: a new FontSystem has no fallback rule; a registration makes
\* has_unicode_range_fallbacks true; no step of any operation removes or
\* changes a registered rule, so it stays true.
C27_RulesNeverExpire ==
    /\ ~HasUnicodeRangeFallbacks
    /\ [][/\ IsPrefix(fallbacks, fallbacks')
          /\ HasUnicodeRangeFallbacks => HasUnicodeRangeFallbacks'
          /\ (ret'.op = "add_fallback" /\ ret' # ret) =>
                /\ HasUnicodeRangeFallbacks'
                /\ fallbacks' = Append(fallbacks, ret'.rule)]_vars

\* C27 witness: after two registrations, a database load and a cached font,
\* a pipeline call returned and both rules are in the table in their order.
C27_Witness ==
    /\ ret.op = "returned"
    /\ Len(fallbacks) = 2
    /\ fallbacks[1] # fallbacks[2]
    /\ db # {}
    /\ font_cache # EmptyMap
    /\ font_matches_cache # EmptyMap

\* The characters E, m, o, j, i follow each other somewhere in name.
HasEmoji(name) ==
    \E i \in 1..(Len(name) - 4) :
        /\ name[i] = "E"
        /\ name[i + 1] = "m"
        /\ name[i + 2] = "o"
        /\ name[i + 3] = "j"
        /\ name[i + 4] = "i"

\* C28: the id list built at construction is sorted ascending and holds
\* exactly the ids of the faces of the construction database that are
\* flagged monospaced and whose PostScript name lacks "Emoji"; the list is
\* never rewritten and is_monospace answers membership in it.
C28_MonospaceIsConstructionFilter ==
    /\ StrictlyAscending(monospace_font_ids)
    /\ \A id \in 0..(MaxFaces + 1) :
          IsMonospaceResult(monospace_font_ids, id) <=>
              \E f \in db : /\ f.id = id
                            /\ f.monospaced
                            /\ ~HasEmoji(f.post_script_name)
    /\ [][/\ monospace_font_ids' = monospace_font_ids
          /\ (ret'.op = "is_monospace" /\ ret' # ret) =>
                (ret'.result <=> ret'.id \in SeqSet(monospace_font_ids))]_vars

\* C28 witness: with the construction database untouched, is_monospace
\* answered false for a monospaced face whose name contains "Emoji" while
\* another face of the database is in the list.
C28_Witness ==
    /\ ret.op = "is_monospace"
    /\ ~ret.result
    /\ Cardinality(db) = MaxFaces - 1
    /\ Len(monospace_font_ids) >= 1
    /\ \E f \in db : /\ f.id = ret.id
                     /\ f.monospaced
                     /\ HasEmoji(f.post_script_name)

\* C29: no step changes the two index fields, so is_monospace and
\* get_monospace_ids_for_scripts answer every argument as before the step,
\* also across a load of a monospaced face through db_mut.
C29_IndexReadOnly ==
    [][/\ monospace_font_ids' = monospace_font_ids
       /\ per_script_monospace_font_ids' = per_script_monospace_font_ids
       /\ \A id \in 0..(MaxFaces + 1) :
             IsMonospaceResult(monospace_font_ids', id) =
                 IsMonospaceResult(monospace_font_ids, id)
       /\ \A scripts \in ScriptQueries :
             MonospaceIdsForScripts(per_script_monospace_font_ids', scripts) =
                 MonospaceIdsForScripts(per_script_monospace_font_ids, scripts)]_vars

\* C29 witness: is_monospace answered false for a face that is monospaced,
\* parses and is not an emoji face: it was loaded after construction; the
\* index is not empty.
C29_Witness ==
    /\ ret.op = "is_monospace"
    /\ ~ret.result
    /\ monospace_font_ids # <<>>
    /\ \E f \in db : /\ f.id = ret.id
                     /\ f.monospaced
                     /\ f.ok
                     /\ ~HasEmoji(f.post_script_name)

\* The ids the per-script set of a tag holds: in a build with the
\* monospace_fallback feature, the faces of the monospace list that parse
\* and list the script in their GPOS or GSUB table.
PerScriptSet(tag) ==
    IF monospace_fallback
    THEN {id \in SeqSet(monospace_font_ids) :
             \E f \in db : f.id = id /\ f.ok /\ tag \in SeqSet(f.scripts)}
    ELSE {}

\* C30: the result of get_monospace_ids_for_scripts is strictly ascending,
\* its ids are exactly the union of the per-script id sets of the given
\* tags (tags no face supports add nothing), and every one of them is
\* monospace.
C30_SortedDedupUnion ==
    ret.op = "get_monospace_ids_for_scripts" =>
        /\ StrictlyAscending(ret.result)
        /\ SeqSet(ret.result) =
              UNION {PerScriptSet(tag) : tag \in SeqSet(ret.scripts)}
        /\ \A id \in SeqSet(ret.result) :
              IsMonospaceResult(monospace_font_ids, id)

\* What a call with the inputs recorded in r returns when the table is rules,
\* the font cache is fc, the groups are taken in this order and the shaper
\* answers as recorded in r.
SecondCall(r, rules, fc, la, wl, order) ==
    LET g == GroupMissing([groups |-> EmptyMap, without |-> <<>>,
                           panicked |-> FALSE],
                          rules, r.line, r.attrs, r.start_run, r.end_run,
                          r.missing)
        p == ProcessGroups([glyphs |-> r.glyphs_in, remaining |-> g.without,
                            fc |-> fc, la |-> la, wl |-> wl, shaped |-> <<>>],
                           g.groups, order, r.shapes)
    IN  IF rules = <<>>
        THEN [panicked |-> FALSE, glyphs_out |-> r.glyphs_in,
              residual |-> r.missing, fc |-> fc]
        ELSE IF g.panicked
        THEN [panicked |-> TRUE, glyphs_out |-> r.glyphs_in,
              residual |-> <<>>, fc |-> fc]
        ELSE [panicked |-> FALSE, glyphs_out |-> SortGlyphs(p.glyphs),
              residual |-> SortPositions(p.remaining), fc |-> p.fc]

\* The groups a call with the inputs recorded in r forms from the table.
GroupsOf(r, rules) ==
    GroupMissing([groups |-> EmptyMap, without |-> <<>>, panicked |-> FALSE],
                 rules, r.line, r.attrs, r.start_run, r.end_run,
                 r.missing).groups

\* C31: a call leaves the rule table, the font-match cache, the codepoint
\* support cache and the monospace index as they were, and the same call made
\* again on the state it left returns the same residual and the same glyph
\* list and leaves the font cache as it is.
C31_NoPersistentState ==
    [][(ret'.op = "process" /\ ret.op # "process") =>
          /\ fallbacks' = fallbacks
          /\ font_matches_cache' = font_matches_cache
          /\ cp_cache' = cp_cache
          /\ monospace_font_ids' = monospace_font_ids
          /\ per_script_monospace_font_ids' = per_script_monospace_font_ids
          /\ \A order \in Orders(DOMAIN GroupsOf(ret', fallbacks')) :
                LET again == SecondCall(ret', fallbacks', font_cache',
                                        load_attempts', warn_log', order)
                IN  /\ again.panicked = ret'.panicked
                    /\ again.glyphs_out = ret'.glyphs_out
                    /\ again.residual = ret'.residual
                    /\ again.fc = font_cache']_vars

\* C31 witness: a call that loaded a font, changed the glyph list and
\* returned a residual, made while the font-match cache and the codepoint
\* support cache held entries.
C31_Witness ==
    /\ ret.op = "process"
    /\ ret.shaped # <<>>
    /\ ret.glyphs_out # ret.glyphs_in
    /\ ret.residual # <<>>
    /\ font_matches_cache # EmptyMap
    /\ cp_cache # EmptyMap

\* C32: an entry of the font cache is never removed or replaced; for an id
\* whose load succeeded no further load is attempted, and every later
\* get_font(id), also after a database mutation, returns the cached handle.
C32_LoadedHandleIsKept ==
    [][\A id \in DOMAIN font_cache :
          /\ id \in DOMAIN font_cache'
          /\ font_cache'[id] = font_cache[id]
          /\ font_cache[id].some =>
                /\ load_attempts'[id] = 1
                /\ load_attempts'[id] = load_attempts[id]
                /\ (ret'.op = "get_font" /\ ret'.id = id) =>
                      ret'.memo /\ ret'.font = font_cache[id]]_vars

\* C32 witness: get_font returned the cached handle of a font that loaded,
\* while the database holds a face loaded after that font's face, a rule is
\* registered and the font-match cache holds an entry.
C32_Witness ==
    /\ ret.op = "get_font"
    /\ ret.memo
    /\ ret.font.some
    /\ load_attempts[ret.id] = 1
    /\ \E f \in db : f.id > ret.id
    /\ fallbacks # <<>>
    /\ font_matches_cache # EmptyMap

\* C33 as stated: a get_font_matches call whose key is cached returns the
\* cached list and leaves the cache as it is, at every cache size up to and
\* including the cap.
C33_HitLeavesCacheAlone ==
    [][( /\ ret'.op = "get_font_matches"
         /\ FontMatchAttrs(ret'.attrs) \in DOMAIN font_matches_cache )
       => /\ ret'.keys = font_matches_cache[FontMatchAttrs(ret'.attrs)]
          /\ font_matches_cache' = font_matches_cache]_vars

\* The last call's record with its outputs in the place of its inputs.
Fed == [ret EXCEPT !.glyphs_in = ret.glyphs_out, !.missing = ret.residual]

\* C34: a call that is given the residual and the glyph list a call returned,
\* with the same table, run and shaping results, returns that residual and
\* that glyph list.
C34_IdempotentOnResidual ==
    (ret.op = "process" /\ ~ret.panicked) =>
        \A order \in Orders(DOMAIN GroupsOf(Fed, fallbacks)) :
            LET again == SecondCall(Fed, fallbacks, font_cache, load_attempts,
                                    warn_log, order)
            IN  /\ ~again.panicked
                /\ again.residual = ret.residual
                /\ again.glyphs_out = ret.glyphs_out

\* C34 witness: the first call changed the glyph list and returned two
\* offsets, one that its fallback font's shaping reports missing and one
\* without a rule; the returned list holds two glyphs of one start.
C34_Witness ==
    /\ ret.op = "process" /\ ~ret.panicked
    /\ ret.glyphs_out # ret.glyphs_in
    /\ \E f \in SeqToSet(ret.shaped) :
          \E o \in SeqToSet(ret.groups[f]) : o \in SeqToSet(ret.residual)
    /\ \E o \in SeqToSet(ret.residual) :
          \A f \in DOMAIN ret.groups : o \notin SeqToSet(ret.groups[f])
    /\ \E i, j \in 1..Len(ret.glyphs_out) :
          i # j /\ ret.glyphs_out[i].start = ret.glyphs_out[j].start

\* The sequences that hold the elements of q as often as q does.
Reorderings(q) ==
    {o \in [1..Len(q) -> SeqSet(q)] :
        \A x \in SeqSet(q) : Occurrences(o, x) = Occurrences(q, x)}

\* The outcome of the last call agrees with that of the call on the inputs
\* recorded in r, the groups taken in any order; the font cache read is the
\* one the last call left, which holds what it loaded.
SameOutcome(r) ==
    \A g \in {GroupMissing([groups |-> EmptyMap, without |-> <<>>,
                            panicked |-> FALSE],
                           fallbacks, r.line, r.attrs, r.start_run, r.end_run,
                           r.missing)} :
        IF fallbacks = <<>>
        THEN ~ret.panicked /\ ret.glyphs_out = r.glyphs_in
                           /\ ret.residual = r.missing
        ELSE IF g.panicked THEN ret.panicked
        ELSE /\ ~ret.panicked
             /\ \A order \in Orders(DOMAIN g.groups) :
                   \A p \in {ProcessGroups([glyphs |-> r.glyphs_in,
                                            remaining |-> g.without,
                                            fc |-> font_cache,
                                            la |-> load_attempts,
                                            wl |-> warn_log, shaped |-> <<>>],
                                           g.groups, order, r.shapes)} :
                       /\ SortGlyphs(p.glyphs) = ret.glyphs_out
                       /\ SortPositions(p.remaining) = ret.residual

\* C35 as stated: the glyph list and the residual a call returns are the
\* same for every order in which the groups are taken and for every order of
\* the offsets of `missing`.
C35_OrderIndependent ==
    ret.op = "process" =>
        \A m \in Reorderings(ret.missing) :
            SameOutcome([ret EXCEPT !.missing = m])

\* C35 amended: with a rule registered the outcome of a call (glyph list,
\* residual, or the panic) is the same for every order of the groups and of
\* the offsets of `missing`; with an empty table the glyph list is the one
\* passed in and the residual is `missing` in the order given.
C35_OrderIndependentWithRules ==
    ret.op = "process" =>
        IF ret.table_empty
        THEN /\ ret.residual = ret.missing
             /\ ret.glyphs_out = ret.glyphs_in
        ELSE \A m \in Reorderings(ret.missing) :
                SameOutcome([ret EXCEPT !.missing = m])

\* C35 witness: two different offsets went to two fonts; one font pushed a
\* glyph to the list and the other, which did not load, left its offset in
\* the residual next to an offset without a rule.
C35_Witness ==
    /\ ret.op = "process" /\ ~ret.panicked
    /\ Cardinality(DOMAIN ret.groups) = 2
    /\ Len(ret.merged) > Len(ret.glyphs_in)
    /\ ret.residual # <<>>

\* C36: every offset of the residual is an offset of `missing`; the glyphs
\* that start at an offset outside `missing` are the ones passed in, in their
\* order; the list does not shrink and grows by no more than the number of
\* different offsets of `missing`; every glyph of the returned list that was
\* not passed in is a glyph of a shaped fallback font and starts at an offset
\* of `missing`.
C36_OnlyMissingOffsetsTouched ==
    ret.op = "process" =>
        /\ SeqToSet(ret.residual) \subseteq SeqToSet(ret.missing)
        /\ \A o \in (0..ByteLen(ret.line)) \ SeqToSet(ret.missing) :
              GlyphsSeqAt(ret.glyphs_out, o) = GlyphsSeqAt(ret.glyphs_in, o)
        /\ Len(ret.glyphs_out) >= Len(ret.glyphs_in)
        /\ Len(ret.glyphs_out) <=
              Len(ret.glyphs_in) + Cardinality(SeqToSet(ret.missing))
        /\ \A i \in 1..Len(ret.glyphs_out) :
              \/ ret.glyphs_out[i] \in SeqToSet(ret.glyphs_in)
              \/ /\ ret.glyphs_out[i].start \in SeqToSet(ret.missing)
                 /\ \E f \in SeqToSet(ret.shaped) :
                       ret.glyphs_out[i] \in SeqToSet(ret.shapes[f].glyphs)

\* C36 witness: `missing` named one offset twice; the call pushed one glyph
\* for it and kept a glyph that starts at an offset outside `missing`.
C36_Witness ==
    /\ ret.op = "process" /\ ~ret.panicked
    /\ Len(ret.missing) = 2
    /\ ret.missing[1] = ret.missing[2]
    /\ Len(ret.glyphs_out) = Len(ret.glyphs_in) + 1
    /\ \E i \in 1..Len(ret.glyphs_out) :
          /\ ret.glyphs_out[i].start \notin SeqToSet(ret.missing)
          /\ ret.glyphs_out[i] \in SeqToSet(ret.glyphs_in)

\* Rules with both constraints, with neither and with one of them, requests
\* with and without weight and style, and the pipeline on a run of weight 400
\* and style Normal, also with a run end inside a char.
StyleRules ==
    { FallbackRule(97, 122, 1, None, None),
      FallbackRule(97, 122, 2, Some(700), Some("Normal")),
      FallbackRule(97, 122, 2, Some(400), Some("Italic")),
      FallbackRule(97, 122, 3, Some(400), None),
      FallbackRule(97, 122, 3, None, Some("Normal")) }

NextStyle ==
    \/ \E rule \in StyleRules : AddUnicodeRangeFallbackWithStyle(rule)
    \/ \E c \in {65, 97}, w \in {None, Some(400), Some(700)},
          st \in {None, Some("Normal"), Some("Italic")} :
          GetUnicodeRangeFallbackForCharWithStyle(c, w, st)
    \/ \E w \in {400, 700} : DbMutLoad(w, "Normal", TRUE, 1)
    \/ ProcessUnicodeRangeFallbacks(
           GlyphsOf(0, RunBoundaries(Line, StartRun, EndRun),
                    RunBoundaries(Line, StartRun, EndRun), {}, FALSE),
           Line, RunAttrs, StartRun, EndRun, FALSE, <<1, 3>>)
    \/ ProcessUnicodeRangeFallbacks(
           GlyphsOf(0, {1}, {1}, {}, FALSE), Line, RunAttrs, 1, 2, FALSE, <<1>>)
    \/ Return

SpecStyle == Init /\ [][NextStyle]_vars

\* A rule of the table has this font, a range that holds c, and either both
\* constraints, equal to weight and style, or no constraint.
Entitled(font_id, c, weight, style) ==
    \E i \in 1..Len(fallbacks) :
        /\ fallbacks[i].font_id = font_id
        /\ fallbacks[i].start <= c /\ c <= fallbacks[i].end
        /\ \/ fallbacks[i].weight = None /\ fallbacks[i].style = None
           \/ /\ fallbacks[i].weight # None /\ fallbacks[i].style # None
              /\ fallbacks[i].weight = weight /\ fallbacks[i].style = style

\* C37: the font a find returns is the font of a rule whose range holds the
\* char and that carries both constraints, equal to the request, or none;
\* and every glyph the pipeline puts into the list is of a font that such a
\* rule gives the char at the glyph's start for the run's weight and style.
C37_OnlyEntitledRules ==
    /\ (ret.op = "find" /\ ret.result # None) =>
           Entitled(ret.result[1], ret.c, ret.weight, ret.style)
    /\ (ret.op = "process" /\ ~ret.panicked) =>
           \A i \in 1..Len(ret.glyphs_out) :
               ret.glyphs_out[i] \notin SeqToSet(ret.glyphs_in) =>
                   Entitled(ret.glyphs_out[i].font_id,
                            CharAt(ret.line, ret.glyphs_out[i].start),
                            Some(ret.attrs.weight), Some(ret.attrs.style))

\* C37 witness: the pipeline put a glyph of the unconstrained rule's font
\* into the list although the most recent rule holds the char and carries
\* the run's weight as its only constraint.
C37_Witness ==
    /\ ret.op = "process" /\ ~ret.panicked
    /\ ret.glyphs_out # ret.glyphs_in
    /\ ret.shaped = <<1>>
    /\ fallbacks[Len(fallbacks)].font_id = 3
    /\ fallbacks[Len(fallbacks)].weight = Some(ret.attrs.weight)
    /\ fallbacks[Len(fallbacks)].style = None

\* Loads and removals through db_mut on a system built from a database of
\* up to MaxFaces - 1 faces, monospaced or proportional. A face is loaded
\* only while no face has been removed, so that faces() keeps the order of
\* the ids.
RemoveKinds ==
    { FaceKind(TRUE, TRUE, MonoName, <<"latn">>),
      FaceKind(TRUE, FALSE, MonoName, <<"latn">>) }

InitRemove ==
    /\ \E n \in 0..(MaxFaces - 1) :
          \E kinds \in [1..n -> RemoveKinds] :
              db = {KindFace(i, kinds[i]) : i \in 1..n}
    /\ issued = Cardinality(db)
    /\ font_cache = EmptyMap
    /\ font_matches_cache = EmptyMap
    /\ cp_cache = EmptyMap
    /\ fallbacks = <<>>
    /\ load_attempts = EmptyMap
    /\ warn_log = EmptyMap
    /\ ret = [op |-> "new"]
    /\ monospace_fallback = FALSE
    /\ MonospaceIndexBuilt

NextRemove ==
    \/ \E id \in 1..MaxFaces : HasFace(id) /\ DbMutRemoveFace(id)
    \/ /\ Cardinality(db) = issued
       /\ \E kind \in RemoveKinds : DbMutLoadFace(KindFace(NextId, kind))
    \/ \E id \in 1..2 : GetFont(id)
    \/ \E id \in 1..2 : IsMonospace(id)
    \/ GetFontMatches(Attrs("Sans", 400, "Normal", 0))
    \/ \E id \in 1..2 : AddUnicodeRangeFallback(97, 122, id)
    \/ GetUnicodeRangeFallbackForChar(97)

SpecRemove == InitRemove /\ [][NextRemove]_vars

\* C38: a db_mut step, a load or a removal, leaves the font cache, the
\* monospace index and the rule table as they were, changing the database
\* and the font-match cache only; and a get_font of an id that has a cached
\* handle returns that handle, whether or not the database still has the face.
C38_DbMutFrame ==
    [][/\ ret'.op \in {"db_mut", "db_mut_remove"} =>
            /\ font_matches_cache' = EmptyMap
            /\ font_cache' = font_cache
            /\ monospace_font_ids' = monospace_font_ids
            /\ per_script_monospace_font_ids' = per_script_monospace_font_ids
            /\ fallbacks' = fallbacks
            /\ cp_cache' = cp_cache
            /\ load_attempts' = load_attempts
            /\ warn_log' = warn_log
       /\ (ret'.op = "get_font" /\ ret'.id \in DOMAIN font_cache) =>
            /\ ret'.font = font_cache[ret'.id]
            /\ font_cache' = font_cache
            /\ db' = db]_vars

\* C38 witness: get_font returned the loaded handle of a face that has been
\* removed from the database, while a rule still names that face, the
\* monospace index still lists it and the lookup still returns it.
C38_Witness ==
    /\ ret.op = "get_font"
    /\ ~HasFace(ret.id)
    /\ ret.memo
    /\ ret.font.some
    /\ db # {}
    /\ ret.id \in SeqSet(monospace_font_ids)
    /\ \E i \in 1..Len(fallbacks) : fallbacks[i].font_id = ret.id
    /\ FindForChar(fallbacks, 97) = Some(ret.id)

====
